---- MODULE Spec2Model ----
(***************************************************************************)
(* A model of the LysKOM protocol A client (lib/client.js) together with   *)
(* the parts of lib/protocol.js it drives: schema formatters, resumable    *)
(* schema parsers, MessageParser, RequestFormatter and the catalogue, and  *)
(* of the tokenizer (lib/tokenstream.js).                                  *)
(*                                                                         *)
(* Two specifications: Spec is the client, fed with the tokens of server   *)
(* messages; TokSpec is the tokenizer alone, fed with the bytes of a       *)
(* stream cut into chunks (the client does not move in it).                *)
(*                                                                         *)
(* Conventions                                                             *)
(*  - a byte string is a sequence of one-character strings;                *)
(*  - a JavaScript reference that may be null is a sequence of length 0    *)
(*    (null) or 1 (the value): None and Some(v);                           *)
(*  - a JavaScript value handed to a formatter is a record tagged with     *)
(*    its typeof in field t;                                               *)
(*  - every handler of the client is one atomic action (node runs each     *)
(*    event handler to completion on a single thread).  The client is      *)
(*    assumed to have an 'error' listener, as EventEmitter requires.       *)
(***************************************************************************)
EXTENDS Integers, Sequences, FiniteSets, TLC

(***************************************************************************)
(* Generic helpers                                                         *)
(***************************************************************************)
None == <<>>
Some(v) == <<v>>
IsNone(o) == Len(o) = 0
IsSome(o) == Len(o) = 1
The(o) == o[1]

Slice(s, n) == SubSeq(s, n + 1, Len(s))
Take(s, n) == SubSeq(s, 1, n)

DigitChars == <<"0", "1", "2", "3", "4", "5", "6", "7", "8", "9">>

DigitValue(c) == CHOOSE d \in 0..9 : DigitChars[d + 1] = c

\* Number.prototype.toString for a non-negative integer
RECURSIVE ToDecimal(_)
ToDecimal(n) ==
    IF n < 10 THEN <<DigitChars[n + 1]>>
    ELSE ToDecimal(n \div 10) \o <<DigitChars[(n % 10) + 1]>>

\* parseInt(s, 10) for a string of digits
RECURSIVE ParseInt(_)
ParseInt(s) ==
    IF Len(s) = 0 THEN 0
    ELSE 10 * ParseInt(Take(s, Len(s) - 1)) + DigitValue(s[Len(s)])

(***************************************************************************)
(* Tokens (lib/tokenstream.js).  Every token carries the same fields so    *)
(* that tokens compare; a field a token type does not have is empty.       *)
(***************************************************************************)
IntToken(str) == [type |-> "int", string |-> str, value |-> ParseInt(str), bytes |-> <<>>]
StringToken(b) == [type |-> "string", string |-> <<>>, value |-> 0, bytes |-> b]
SimpleToken(c) == [type |-> c, string |-> <<>>, value |-> 0, bytes |-> <<>>]

IntTok(n) == IntToken(ToDecimal(n))

(***************************************************************************)
(* Schema types (lib/protocol.js)                                          *)
(***************************************************************************)
Field(name, type) == [name |-> name, type |-> type]

Structure(fields) == [k |-> "Structure", fields |-> fields]

Bitstring(flags, length) ==
    [k |-> "Bitstring", flags |-> flags,
     reserved |-> [i \in 1..(IF length > Len(flags) THEN length - Len(flags) ELSE 0) |-> "0"]]

KOMArray(type) == [k |-> "KOMArray", type |-> type]

Empty == [k |-> "Empty"]
Int32 == [k |-> "Int"]
Bool == [k |-> "Bool"]
KOMString == [k |-> "KOMString"]

int(name) == Field(name, Int32)
bool(name) == Field(name, Bool)
string(name) == Field(name, KOMString)
array(name, type) == Field(name, KOMArray(type))

(***************************************************************************)
(* The catalogue (lib/protocol.js): common types, RPCs, async messages     *)
(* and error codes                                                         *)
(***************************************************************************)
AuxItemFlags ==
    Bitstring(<<"deleted", "inherit", "secret", "hideCreator", "dontGarb">>, 8)

AuxItemInput ==
    Structure(<<int("tag"), Field("flags", AuxItemFlags), int("inheritLimit"), string("data")>>)

ConfType == Bitstring(<<"rdProt", "original", "secret", "letterbox">>, 4)

ConfZInfo == Structure(<<string("name"), Field("type", ConfType), int("confNo")>>)

ExtendedConfType ==
    Bitstring(<<"rdProt", "original", "secret", "letterbox", "allowAnonymous", "forbidSecret">>, 8)

PersonalFlags == Bitstring(<<"unreadIsSecret">>, 8)

Time ==
    Structure(<<int("seconds"), int("minutes"), int("hours"), int("day"), int("month"),
                int("year"), int("dayOfWeek"), int("dayOfYear"), bool("isDST")>>)

RPC(number, req, res) == [number |-> number, request |-> req, response |-> res]

RPCerror == Structure(<<int("errorCode"), int("errorStatus")>>)

rpc ==
    "acceptAsync" :> RPC(80, Structure(<<array("requestList", Int32)>>), Empty) @@
    "createPerson" :> RPC(89, Structure(<<string("name"), string("passwd"),
                                          Field("flags", PersonalFlags),
                                          array("auxItems", AuxItemInput)>>), Int32) @@
    "getTime" :> RPC(35, Empty, Time) @@
    "getUconfStat" :> RPC(78, Structure(<<int("conference")>>),
                          Structure(<<string("name"), Field("type", ExtendedConfType),
                                      int("highestLocalNo"), int("nice")>>)) @@
    "getVersionInfo" :> RPC(75, Empty,
                            Structure(<<int("protocolVersion"), string("serverSoftware"),
                                        string("softwareVersion")>>)) @@
    "login" :> RPC(62, Structure(<<int("person"), string("passwd"), bool("invisible")>>), Empty) @@
    "logout" :> RPC(1, Empty, Empty) @@
    "lookupZName" :> RPC(76, Structure(<<string("name"), bool("wantPersons"), bool("wantConfs")>>),
                         KOMArray(ConfZInfo)) @@
    "reZLookup" :> RPC(74, Structure(<<string("regexp"), bool("wantPersons"), bool("wantConfs")>>),
                       KOMArray(ConfZInfo)) @@
    "sendMessage" :> RPC(53, Structure(<<int("recipient"), string("message")>>), Empty)

Async(name, msg) == [name |-> name, msg |-> msg]

async ==
    12 :> Async("send-message", Structure(<<int("recipient"), int("sender"), string("message")>>)) @@
    8 :> Async("leave-conf", Structure(<<int("confNo")>>)) @@
    9 :> Async("login", Structure(<<int("persNo"), int("sessionNo")>>)) @@
    13 :> Async("logout", Structure(<<int("persNo"), int("sessionNo")>>)) @@
    18 :> Async("new-membership", Structure(<<int("persNo"), int("confNo")>>)) @@
    21 :> Async("new-motd", Structure(<<int("confNo"), int("oldMotd"), int("newMotd")>>)) @@
    5 :> Async("new-name", Structure(<<int("confNo"), string("oldName"), string("newName")>>)) @@
    20 :> Async("new-presentation",
                Structure(<<int("confNo"), int("oldPresentation"), int("newPresentation")>>)) @@
    19 :> Async("new-user-area",
                Structure(<<int("persNo"), int("oldUserArea"), int("newUserArea")>>)) @@
    11 :> Async("rejected-connection", Empty) @@
    7 :> Async("sync-db", Empty)

errorCodes ==
    0 :> "no-error" @@ 2 :> "not-implemented" @@ 3 :> "obsolete-call" @@
    4 :> "invalid-password" @@ 5 :> "string-too-long" @@ 6 :> "login-first" @@
    7 :> "login-disallowed" @@ 8 :> "conference-zero" @@ 9 :> "undefined-conference" @@
    10 :> "undefined-person" @@ 11 :> "access-denied" @@ 12 :> "permission-denied" @@
    13 :> "not-member" @@ 14 :> "no-such-text" @@ 15 :> "text-zero" @@
    16 :> "no-such-local-text" @@ 17 :> "local-text-zero" @@ 18 :> "bad-name" @@
    19 :> "index-out-of-range" @@ 20 :> "conference-exists" @@ 21 :> "person-exists" @@
    22 :> "secret-public" @@ 23 :> "letterbox" @@ 24 :> "ldb-error" @@
    25 :> "illegal-misc" @@ 26 :> "illegal-info-type" @@ 27 :> "already-recipient" @@
    28 :> "already-comment" @@ 29 :> "already-footnote" @@ 30 :> "not-recipient" @@
    31 :> "not-comment" @@ 32 :> "not-footnote" @@ 33 :> "recipient-limit" @@
    34 :> "comment-limit" @@ 35 :> "footnote-limit" @@ 36 :> "mark-limit" @@
    37 :> "not-author" @@ 38 :> "no-connect" @@ 39 :> "out-of-memory" @@
    40 :> "server-is-crazy" @@ 41 :> "client-is-crazy" @@ 42 :> "undefined-session" @@
    43 :> "regexp-error" @@ 44 :> "not-marked" @@ 45 :> "temporary-failure" @@
    46 :> "long-array" @@ 47 :> "anonymous-rejected" @@ 48 :> "illegal-aux-item" @@
    49 :> "aux-item-permission" @@ 50 :> "unknown-async" @@ 51 :> "internal-error" @@
    52 :> "feature-disabled" @@ 53 :> "message-not-sent" @@ 54 :> "invalid-membership-type" @@
    55 :> "invalid-range" @@ 56 :> "invalid-range-list" @@ 57 :> "undefined-measurement" @@
    58 :> "priority-denied" @@ 59 :> "weight-denied" @@ 60 :> "weight-zero" @@
    61 :> "bad-bool"

(***************************************************************************)
(* JavaScript values handed to the formatters                              *)
(***************************************************************************)
JUndefined == [t |-> "undefined"]
JNull == [t |-> "null"]
JNum(n) == [t |-> "number", n |-> n]
JBool(b) == [t |-> "boolean", b |-> b]
JStr(s) == [t |-> "string", s |-> s]
JBuf(b) == [t |-> "buffer", b |-> b]
JArr(a) == [t |-> "array", a |-> a]
JObj(o) == [t |-> "object", o |-> o]

\* typeof v
TypeOf(v) == IF v.t \in {"null", "buffer", "array", "object"} THEN "object" ELSE v.t

\* ToBoolean(v), as in `v ? a : b`
Truthy(v) ==
    CASE v.t = "undefined" -> FALSE
      [] v.t = "null" -> FALSE
      [] v.t = "number" -> v.n # 0
      [] v.t = "boolean" -> v.b
      [] v.t = "string" -> Len(v.s) > 0
      [] OTHER -> TRUE

\* obj.hasOwnProperty(name) and obj[name], for an obj that is not null
HasOwn(obj, name) == obj.t = "object" /\ name \in DOMAIN obj.o
Get(obj, name) == IF HasOwn(obj, name) THEN obj.o[name] ELSE JUndefined

\* Characters outside latin1, which iconv-lite encodes as its default character
NonLatin1 == {"EURO"}
Latin1Encode(s) == [i \in DOMAIN s |-> IF s[i] \in NonLatin1 THEN "?" ELSE s[i]]

(***************************************************************************)
(* RequestFormatter (lib/protocol.js).  buffer is the bytes stored in the  *)
(* Buffer up to the last one stored, cap the allocated length of the       *)
(* Buffer, pos the write position, err the exception that has been thrown  *)
(* ("" when none): a formatter that has thrown does no more work.  A byte  *)
(* of the Buffer that was never stored is Uninitialized: new Buffer(n)     *)
(* does not clear its memory.                                              *)
(***************************************************************************)
InitialBufferSize == 1000

Uninitialized == "uninitialized"

NewFormatter == [buffer |-> <<>>, cap |-> InitialBufferSize, pos |-> 0, err |-> ""]

Throw(f, name) == IF f.err = "" THEN [f EXCEPT !.err = name] ELSE f

\* ensureSpace leaving the Buffer as it is
ensureSpaceNever(f, bytes) == f

ensureSpace(f, bytes) ==
    IF f.pos + bytes - f.cap > 0
    THEN [f EXCEPT !.cap = f.cap + (f.pos + bytes - f.cap) + InitialBufferSize]
    ELSE f

\* The first n bytes of a Buffer whose stored bytes are b
Stored(b, n) == [i \in 1..n |-> IF i <= Len(b) THEN b[i] ELSE Uninitialized]

\* How many of n bytes the Buffer takes at this.pos
Fits(f, n) == IF f.pos + n <= f.cap THEN n ELSE IF f.pos < f.cap THEN f.cap - f.pos ELSE 0

\* the Buffer after bytes have been stored at this.pos, as far as they fit
Store(f, bytes) == Stored(f.buffer, f.pos) \o Take(bytes, Fits(f, Len(bytes)))

\* this.pos += this.buffer.write(str, this.pos, undefined, 'ascii'): the
\* number of bytes written is returned
bufferWrite(f, str) ==
    [f EXCEPT !.buffer = Store(f, str), !.pos = f.pos + Fits(f, Len(str))]

\* buf.copy(this.buffer, this.pos); this.pos += buf.length
bufferCopy(f, buf) ==
    [f EXCEPT !.buffer = Store(f, buf), !.pos = f.pos + Len(buf)]

\* this.buffer[this.pos++] = byte
bufferPut(f, byte) ==
    [f EXCEPT !.buffer = Store(f, <<byte>>), !.pos = f.pos + 1]

\* RequestFormatter.prototype.write, of a string
write(f, str) ==
    IF f.err # "" THEN f ELSE bufferWrite(ensureSpace(f, Len(str)), str)

\* RequestFormatter.prototype.write, of a Buffer
writeBuffer(f, buf) ==
    IF f.err # "" THEN f ELSE bufferCopy(ensureSpace(f, Len(buf)), buf)

addField(f, str) ==
    IF f.err # "" THEN f
    ELSE bufferWrite(bufferPut(ensureSpace(f, Len(str) + 1), " "), str)

\* this.buffer.slice(0, this.pos)
getBuffer(f) == Stored(f.buffer, IF f.pos < f.cap THEN f.pos ELSE f.cap)

(***************************************************************************)
(* The format method of each schema type                                   *)
(***************************************************************************)
FormatInt(f, v) ==
    IF TypeOf(v) # "number" THEN Throw(f, "ClientError")
    ELSE addField(f, ToDecimal(v.n))

FormatBool(f, v) == addField(f, IF Truthy(v) THEN <<"1">> ELSE <<"0">>)

\* the Buffer KOMString.format writes: text is encoded to latin1 first
FormatBuffer(f, b) ==
    IF b.t # "buffer" THEN Throw(f, "ClientError")
    ELSE writeBuffer(addField(f, ToDecimal(Len(b.b)) \o <<"H">>), b.b)

FormatKOMString(f, v) ==
    FormatBuffer(f, IF TypeOf(v) = "string" THEN JBuf(Latin1Encode(v.s)) ELSE v)

FormatBitstring(type, f, obj) ==
    IF TypeOf(obj) # "object" THEN Throw(f, "ClientError")
    ELSE IF obj.t = "null" /\ Len(type.flags) > 0 THEN Throw(f, "TypeError")
    ELSE addField(f, [i \in 1..Len(type.flags) |->
                          IF Truthy(Get(obj, type.flags[i])) THEN "1" ELSE "0"]
                     \o type.reserved)

RECURSIVE Format(_, _, _)
RECURSIVE FormatElements(_, _, _, _)
RECURSIVE FormatFields(_, _, _, _)

\* the loop of KOMArray.prototype.format, from element i (0-based)
FormatElements(type, f, a, i) ==
    IF f.err # "" \/ i >= Len(a) THEN f
    ELSE FormatElements(type, Format(type, f, a[i + 1]), a, i + 1)

FormatKOMArray(type, f, a) ==
    IF a.t # "array" THEN Throw(f, "ClientError")
    ELSE addField(FormatElements(type.type,
                                 addField(addField(f, ToDecimal(Len(a.a))), <<"{">>),
                                 a.a, 0),
                  <<"}">>)

\* the loop of Structure.prototype.format, from field i (0-based)
FormatFields(fields, f, obj, i) ==
    IF f.err # "" \/ i >= Len(fields) THEN f
    ELSE IF obj.t = "null" THEN Throw(f, "TypeError")
    ELSE IF Get(obj, fields[i + 1].name).t = "undefined" /\ ~HasOwn(obj, fields[i + 1].name)
    THEN Throw(f, "ClientError")
    ELSE FormatFields(fields,
                      Format(fields[i + 1].type, f, Get(obj, fields[i + 1].name)),
                      obj, i + 1)

FormatStructure(type, f, obj) ==
    IF TypeOf(obj) # "object" THEN Throw(f, "ClientError")
    ELSE FormatFields(type.fields, f, obj, 0)

Format(type, f, v) ==
    IF f.err # "" THEN f
    ELSE CASE type.k = "Empty" -> f
           [] type.k = "Int" -> FormatInt(f, v)
           [] type.k = "Bool" -> FormatBool(f, v)
           [] type.k = "KOMString" -> FormatKOMString(f, v)
           [] type.k = "Bitstring" -> FormatBitstring(type, f, v)
           [] type.k = "KOMArray" -> FormatKOMArray(type, f, v)
           [] type.k = "Structure" -> FormatStructure(type, f, v)

\* new RequestFormatter(rpc, refNo, params)
RequestFormatter(r, refNo, params) ==
    write(Format(r.request,
                 addField(write(NewFormatter, ToDecimal(refNo)), ToDecimal(r.number)),
                 params),
          <<"\n">>)

\* RPC.prototype.formatRequest: the bytes, or the exception thrown
Formatted(f) == [err |-> f.err, msg |-> IF f.err = "" THEN getBuffer(f) ELSE <<>>]

formatRequest(r, refNo, params) == Formatted(RequestFormatter(r, refNo, params))


(***************************************************************************)
(* Errors (lib/errors.js).  All error objects carry the same fields.       *)
(***************************************************************************)
ProtocolError(message) ==
    [name |-> "ProtocolError", message |-> message,
     errorCode |-> 0, errorName |-> "", errorStatus |-> 0]

ServerError(message) ==
    [name |-> "ServerError", message |-> message,
     errorCode |-> 0, errorName |-> "", errorStatus |-> 0]

ClientError(message) ==
    [name |-> "ClientError", message |-> message,
     errorCode |-> 0, errorName |-> "", errorStatus |-> 0]

RequestError(info) ==
    [name |-> "RequestError",
     message |-> info.errorName \o " (" \o ToString(info.errorStatus) \o ")",
     errorCode |-> info.errorCode, errorName |-> info.errorName,
     errorStatus |-> info.errorStatus]

\* an error of the JavaScript runtime or of the socket
OtherError(name, message) ==
    [name |-> name, message |-> message,
     errorCode |-> 0, errorName |-> "", errorStatus |-> 0]

(***************************************************************************)
(* Schema parsers (lib/protocol.js).  A parser is the closure getParser    *)
(* returns: a record of the closure's variables.  Running it on a          *)
(* MessageParser m gives the closure and m as it leaves them, and r: the   *)
(* parser returned null ("null"), returned the value v ("value") or threw  *)
(* the error v ("throw").                                                  *)
(***************************************************************************)
Hole == [hole |-> TRUE]

Ret(p, m, r, v) == [p |-> p, m |-> m, r |-> r, v |-> v]

\* MessageParser.prototype.nextToken: the token (None for null) and the parser after
nextToken(m) ==
    IF m.used < Len(The(m.tokens))
    THEN [t |-> Some(The(m.tokens)[m.used + 1]), m |-> [m EXCEPT !.used = m.used + 1]]
    ELSE [t |-> None, m |-> m]

availableTokens(m) == Len(The(m.tokens)) - m.used

getParser(type) ==
    CASE type.k = "Structure" ->
           [k |-> "Structure", fields |-> type.fields, i |-> 0, obj |-> <<>>, cur |-> None]
      [] type.k = "KOMArray" ->
           [k |-> "KOMArray", type |-> type.type, length |-> None, array |-> None,
            i |-> 0, cur |-> None]
      [] type.k = "Bitstring" -> [k |-> "Bitstring", flags |-> type.flags]
      [] OTHER -> [k |-> type.k]

EmptyParser(p, m) == Ret(p, m, "value", <<>>)

\* a scalar parser, having called msg.nextToken(): n is the token and the parser after
IntTaken(p, n) ==
    IF IsSome(n.t)
    THEN IF The(n.t).type # "int"
         THEN Ret(p, n.m, "throw", ProtocolError("expected int, got " \o The(n.t).type))
         ELSE Ret(p, n.m, "value", The(n.t).value)
    ELSE Ret(p, n.m, "null", <<>>)

IntParser(p, m) == IntTaken(p, nextToken(m))

BoolTaken(p, n) ==
    IF IsSome(n.t)
    THEN IF The(n.t).type # "int"
         THEN Ret(p, n.m, "throw", ProtocolError("expected bool, got " \o The(n.t).type))
         ELSE Ret(p, n.m, "value", The(n.t).value # 0)
    ELSE Ret(p, n.m, "null", <<>>)

BoolParser(p, m) == BoolTaken(p, nextToken(m))

KOMStringTaken(p, n) ==
    IF IsSome(n.t)
    THEN IF The(n.t).type # "string"
         THEN Ret(p, n.m, "throw", ProtocolError("expected string, got " \o The(n.t).type))
         ELSE Ret(p, n.m, "value", The(n.t).bytes)
    ELSE Ret(p, n.m, "null", <<>>)

KOMStringParser(p, m) == KOMStringTaken(p, nextToken(m))

\* the index (1-based) of the last occurrence of flag in flags
FlagIndex(flags, flag) ==
    CHOOSE i \in 1..Len(flags) :
        flags[i] = flag /\ \A j \in (i + 1)..Len(flags) : flags[j] # flag

\* Flags reading the digits of the token's value, not the token's string
FlagsOfValue(flags, str) ==
    [flag \in {flags[i] : i \in 1..Len(flags)} |->
        /\ FlagIndex(flags, flag) <= Len(ToDecimal(ParseInt(str)))
        /\ ToDecimal(ParseInt(str))[FlagIndex(flags, flag)] = "1"]

\* the object Bitstring.prototype.parser builds from the raw digits str
Flags(flags, str) ==
    [flag \in {flags[i] : i \in 1..Len(flags)} |->
        FlagIndex(flags, flag) <= Len(str) /\ str[FlagIndex(flags, flag)] = "1"]

BitstringTaken(p, n) ==
    IF IsSome(n.t)
    THEN IF The(n.t).type # "int"
         THEN Ret(p, n.m, "throw", ProtocolError("expected int, got " \o The(n.t).type))
         ELSE Ret(p, n.m, "value", Flags(p.flags, The(n.t).string))
    ELSE Ret(p, n.m, "null", <<>>)

BitstringParser(p, m) == BitstringTaken(p, nextToken(m))

RECURSIVE RunParser(_, _)
RECURSIVE StructureLoop(_, _)
RECURSIVE ArrayLoop(_, _)

\* the parser of the field or element in progress: currentParser, made when null
Current(p, type) == IF IsNone(p.cur) THEN getParser(type) ELSE The(p.cur)

\* the body of the field loop dropping the parser of a field that needs more tokens
StructureStepAnew(p, res) ==
    IF res.r # "value"
    THEN Ret([p EXCEPT !.cur = None], res.m, res.r, res.v)
    ELSE StructureLoop([p EXCEPT !.obj = (p.fields[p.i + 1].name :> res.v) @@ p.obj,
                                 !.cur = None,
                                 !.i = p.i + 1],
                       res.m)

\* the body of the while loop of the closure of Structure.prototype.getParser,
\* after currentParser(msg) has left res
StructureStep(p, res) ==
    IF res.r # "value"
    THEN Ret([p EXCEPT !.cur = Some(res.p)], res.m, res.r, res.v)
    ELSE StructureLoop([p EXCEPT !.obj = (p.fields[p.i + 1].name :> res.v) @@ p.obj,
                                 !.cur = None,
                                 !.i = p.i + 1],
                       res.m)

\* the while loop of the closure of Structure.prototype.getParser
StructureLoop(p, m) ==
    IF p.i >= Len(p.fields) THEN Ret(p, m, "value", p.obj)
    ELSE StructureStep(p, RunParser(Current(p, p.fields[p.i + 1].type), m))

\* the body of the element loop, after currentParser(msg) has left res
ArrayStep(p, res) ==
    IF res.r # "value"
    THEN Ret([p EXCEPT !.cur = Some(res.p)], res.m, res.r, res.v)
    ELSE ArrayLoop([p EXCEPT !.array = Some([The(p.array) EXCEPT ![p.i + 1] = res.v]),
                             !.cur = None,
                             !.i = p.i + 1],
                   res.m)

\* the end of the element loop taking any token for the closing brace
ArrayCloseAny(p, n) ==
    IF IsSome(n.t) THEN Ret(p, n.m, "value", The(p.array)) ELSE Ret(p, n.m, "null", <<>>)

\* the closing brace, having called msg.nextToken()
ArrayClose(p, n) ==
    IF IsSome(n.t)
    THEN IF The(n.t).type # "}"
         THEN Ret(p, n.m, "throw", ProtocolError("expected }, got " \o The(n.t).type))
         ELSE Ret(p, n.m, "value", The(p.array))
    ELSE Ret(p, n.m, "null", <<>>)

\* the element loop and the closing brace of the closure of KOMArray.prototype.getParser
ArrayLoop(p, m) ==
    IF p.i < The(p.length)
    THEN ArrayStep(p, RunParser(Current(p, p.type), m))
    ELSE ArrayClose(p, nextToken(m))

\* new Array(length)
NewArray(length) == [j \in 1..length |-> Hole]

\* the opening brace or the star, having called msg.nextToken()
ArrayOpened(p, n) ==
    IF IsSome(n.t)
    THEN IF The(n.t).type = "*"
         THEN Ret(p, n.m, "value", NewArray(The(p.length)))
         ELSE IF The(n.t).type # "{"
         THEN Ret(p, n.m, "throw", ProtocolError("expected {, got " \o The(n.t).type))
         ELSE ArrayLoop([p EXCEPT !.array = Some(NewArray(The(p.length)))], n.m)
    ELSE Ret(p, n.m, "null", <<>>)

\* the opening brace (or the star) of an array whose length is known
ArrayOpen(p, m) ==
    IF IsSome(p.array) THEN ArrayLoop(p, m) ELSE ArrayOpened(p, nextToken(m))

\* the length, having called msg.nextToken()
ArrayLength(p, n) ==
    IF IsSome(n.t)
    THEN IF The(n.t).type # "int"
         THEN Ret(p, n.m, "throw", ProtocolError("expected int, got " \o The(n.t).type))
         ELSE ArrayOpen([p EXCEPT !.length = Some(The(n.t).value)], n.m)
    ELSE Ret(p, n.m, "null", <<>>)

\* the closure of KOMArray.prototype.getParser
KOMArrayParser(p, m) ==
    IF IsSome(p.length) THEN ArrayOpen(p, m) ELSE ArrayLength(p, nextToken(m))

RunParser(p, m) ==
    CASE p.k = "Empty" -> EmptyParser(p, m)
      [] p.k = "Int" -> IntParser(p, m)
      [] p.k = "Bool" -> BoolParser(p, m)
      [] p.k = "KOMString" -> KOMStringParser(p, m)
      [] p.k = "Bitstring" -> BitstringParser(p, m)
      [] p.k = "KOMArray" -> KOMArrayParser(p, m)
      [] p.k = "Structure" -> StructureLoop(p, m)

(***************************************************************************)
(* MessageParser (lib/protocol.js)                                         *)
(***************************************************************************)
MessageParser(struct) ==
    [kind |-> "MessageParser", obj |-> None, parser |-> getParser(struct),
     tokens |-> None, used |-> 0]

\* parseTokens: the parser after the call, and what the call did: returned null
\* (r = "null"), returned the unused tokens (r = "value", remaining) or threw (err)
\* this.tokens after parseTokens has taken the new tokens
TakeTokens(mp, tokens) ==
    IF IsSome(mp.tokens)
    THEN [mp EXCEPT !.tokens = Some(The(mp.tokens) \o tokens)]
    ELSE [mp EXCEPT !.tokens = Some(tokens), !.used = 0]

\* parseTokens after this.parser(this) has left res in the parser m1
Parsed(m1, res) ==
    CASE res.r = "throw" ->
           [mp |-> m1, r |-> "throw", remaining |-> <<>>, err |-> res.v]
      [] res.r = "value" ->
           [mp |-> [m1 EXCEPT !.obj = Some(res.v)], r |-> "value",
            remaining |-> IF m1.used > 0 THEN Slice(The(m1.tokens), m1.used)
                          ELSE The(m1.tokens),
            err |-> ProtocolError("")]
      [] res.r = "null" ->
           [mp |-> IF m1.used = Len(The(m1.tokens))
                   THEN [m1 EXCEPT !.tokens = None, !.used = 0]
                   ELSE m1,
            r |-> "null", remaining |-> <<>>, err |-> ProtocolError("")]

\* the parser's closure and the MessageParser as this.parser(this) leaves them
Ran(res) == Parsed([res.m EXCEPT !.parser = res.p], res)

parseTokens(mp, tokens) == Ran(RunParser(mp.parser, TakeTokens(mp, tokens)))

getMessage(mp) == mp.obj

getResponseParser(r) == MessageParser(r.response)
getErrorParser(r) == MessageParser(RPCerror)
getMessageParser(a) == MessageParser(a.msg)


(***************************************************************************)
(* The client (lib/client.js).                                             *)
(*                                                                         *)
(* The fields of the Client object:                                        *)
(*   state, nextRefNo, requests, currentRequest, currentParser,            *)
(*   currentTarget, bufferedTokens, requiredTokens,                        *)
(*   socket, tokenstream   TRUE while this._socket / this._tokenstream     *)
(*                         is not null                                     *)
(* Its collaborators:                                                      *)
(*   written        the buffers passed to socket.write, in order           *)
(*   ended          the number of calls of socket.end                      *)
(*   destroyed      socket.destroy has been called                         *)
(*   sockListeners  the listeners on the socket are attached (the          *)
(*                  client's, and the tokenizer's 'data' and 'end')        *)
(*   tsListeners    the client's listeners on the tokenizer are attached   *)
(*   expectHandshake  the tokenizer still waits for the server handshake   *)
(*   connected, peerEnded, sockClosed   the socket has emitted 'connect',  *)
(*                  'end', 'close'                                         *)
(*   wire           the tokens the server has sent and the tokenizer has   *)
(*                  not yet emitted                                        *)
(* What the program's user observes:                                       *)
(*   emitted        the events the client has emitted, in order            *)
(*   futures        per request that was sent: its name, the refNo in      *)
(*                  the request record, and the calls of its resolve and   *)
(*                  reject functions, in order                             *)
(*   threw          the exception the last handler or method threw, ""     *)
(*                  when it returned                                       *)
(*   sent           the messages the server has sent, in order             *)
(*   promise        the Promise of connectAndWait (index.js): whether its  *)
(*                  listeners for 'error' and 'connect' are attached to    *)
(*                  the client, and the calls of its resolve and reject    *)
(*                  functions, in order                                    *)
(* The tokenizer read byte by byte (see below):                            *)
(*   stream         the bytes a server sends, as items, and the            *)
(*                  expectHandshake the TokenStream is constructed with    *)
(*   delivered      the number of bytes the stream has emitted as 'data'   *)
(*   streamEnded    the stream has emitted 'end'                           *)
(*   buffer, listening, tsEmitted   the TokenStream                        *)
(* A function applied to an input by itself (see the last sections):       *)
(*   job            the input                                              *)
(*   run            what the calls made so far have returned               *)
(***************************************************************************)
VARIABLES state, nextRefNo, requests, currentRequest, currentParser, currentTarget,
          bufferedTokens, requiredTokens, socket, tokenstream,
          written, ended, writable, destroyed, sockListeners, tsListeners, expectHandshake,
          connected, peerEnded, sockClosed, wire,
          emitted, futures, threw, sent,
          stream, delivered, streamEnded, buffer, listening, tsEmitted,
          job, run, promise

clientVars == <<state, nextRefNo, requests, currentRequest, currentParser, currentTarget,
                bufferedTokens, requiredTokens, socket, tokenstream>>
ioVars == <<written, ended, writable, destroyed, sockListeners, tsListeners>>
envVars == <<expectHandshake, connected, peerEnded, sockClosed, wire, sent>>
obsVars == <<emitted, futures, threw, promise>>
tokVars == <<stream, delivered, streamEnded, buffer, listening, tsEmitted>>
jobVars == <<job, run>>
vars == <<clientVars, ioVars, envVars, obsVars, tokVars, jobVars>>

\* The client and what its handlers act on, as one record
Client ==
    [state |-> state, nextRefNo |-> nextRefNo, requests |-> requests,
     currentRequest |-> currentRequest, currentParser |-> currentParser,
     currentTarget |-> currentTarget, bufferedTokens |-> bufferedTokens,
     requiredTokens |-> requiredTokens, socket |-> socket, tokenstream |-> tokenstream,
     written |-> written, ended |-> ended, writable |-> writable, destroyed |-> destroyed,
     sockListeners |-> sockListeners, tsListeners |-> tsListeners,
     emitted |-> emitted, futures |-> futures, threw |-> "", promise |-> promise]

\* The state after a handler has left the client as c
Becomes(c) ==
    /\ state' = c.state
    /\ nextRefNo' = c.nextRefNo
    /\ requests' = c.requests
    /\ currentRequest' = c.currentRequest
    /\ currentParser' = c.currentParser
    /\ currentTarget' = c.currentTarget
    /\ bufferedTokens' = c.bufferedTokens
    /\ requiredTokens' = c.requiredTokens
    /\ socket' = c.socket
    /\ tokenstream' = c.tokenstream
    /\ written' = c.written
    /\ ended' = c.ended
    /\ writable' = c.writable
    /\ destroyed' = c.destroyed
    /\ sockListeners' = c.sockListeners
    /\ tsListeners' = c.tsListeners
    /\ emitted' = c.emitted
    /\ futures' = c.futures
    /\ threw' = c.threw
    /\ promise' = c.promise

\* connectAndWait: the Promise after its executor has run, with
\* client.on('error', reject) and client.once('connect', ...)
Waiting == [onError |-> TRUE, onceConnect |-> TRUE, calls |-> <<>>]

\* the listeners of connectAndWait with the one for 'connect' left out
errorListenerOnly(c, name) ==
    IF name = "error" /\ c.promise.onError
    THEN [c EXCEPT !.promise.calls = Append(@, "reject")]
    ELSE c

\* the listeners of connectAndWait, when the client emits name: reject for
\* 'error'; for the first 'connect', removeListener('error', reject) and
\* resolve(client)
connectAndWaitListeners(c, name) ==
    IF name = "error" /\ c.promise.onError
    THEN [c EXCEPT !.promise.calls = Append(@, "reject")]
    ELSE IF name = "connect" /\ c.promise.onceConnect
    THEN [c EXCEPT !.promise = [onError |-> FALSE, onceConnect |-> FALSE,
                                calls |-> Append(@.calls, "resolve")]]
    ELSE c

\* EventEmitter.prototype.emit on the client
emit(c, name, arg) ==
    connectAndWaitListeners([c EXCEPT !.emitted = Append(@, [name |-> name, arg |-> arg])], name)

NoError == OtherError("", "")

\* req.resolve(msg) and req.reject(err) of the request record req.  What the
\* callback is given is recorded with what it can observe when it runs: the
\* state of the client, and the number of events the client has emitted
resolve(c, req, msg) ==
    [c EXCEPT !.futures[req.id].settled =
                  Append(@, [kind |-> "resolve", value |-> msg, err |-> NoError,
                             state |-> c.state, after |-> Len(c.emitted)])]

reject(c, req, err) ==
    [c EXCEPT !.futures[req.id].settled =
                  Append(@, [kind |-> "reject", value |-> <<>>, err |-> err,
                             state |-> c.state, after |-> Len(c.emitted)])]

\* the for-in loop of _onError over the keys of this._requests, in ascending order
RECURSIVE RejectAll(_, _, _)
RejectAll(c, keys, err) ==
    IF keys = {} THEN c
    ELSE RejectAll(reject(c, c.requests[CHOOSE n \in keys : \A o \in keys : n <= o], err),
                   keys \ {CHOOSE n \in keys : \A o \in keys : n <= o}, err)

\* _onError: this._socket.destroy(), when there is a socket
destroySocket(c) ==
    IF c.socket THEN [c EXCEPT !.destroyed = TRUE, !.writable = FALSE, !.socket = FALSE]
    ELSE c

\* _onError: this._tokenstream.removeAllListeners(), a TypeError when it is null
removeTokenstream(c) ==
    IF ~c.tokenstream THEN [c EXCEPT !.threw = "TypeError"]
    ELSE [c EXCEPT !.tsListeners = FALSE, !.tokenstream = FALSE]

\* _onError: the request being parsed is rejected
rejectCurrent(c, err) ==
    IF IsSome(c.currentRequest)
    THEN [reject(c, The(c.currentRequest), err) EXCEPT !.currentRequest = None]
    ELSE c

\* closedAndRejected without the loop over this._requests
closedAndCurrentRejected(c, err) ==
    IF c.threw # "" THEN c
    ELSE [rejectCurrent(emit([emit(c, "closed", <<>>) EXCEPT !.state = "closed"], "error", err),
                        err)
             EXCEPT !.requests = <<>>]

\* _onError from this.emit('closed') on
closedAndRejected(c, err) ==
    IF c.threw # "" THEN c
    ELSE [RejectAll(rejectCurrent(emit([emit(c, "closed", <<>>) EXCEPT !.state = "closed"],
                                       "error", err),
                                  err),
                    DOMAIN c.requests, err)
             EXCEPT !.requests = <<>>]

\* _onError sparing the connection on a ServerError: the error is emitted, no more
onErrorSparing(c, err) ==
    IF err.name = "ServerError" THEN emit(c, "error", err)
    ELSE closedAndRejected(removeTokenstream(destroySocket(c)), err)

\* Client.prototype._onError
onError(c, err) == closedAndRejected(removeTokenstream(destroySocket(c)), err)

\* Client.prototype._protocolError
protocolError(c, msg) == onError(c, ProtocolError(msg))

User == <<"t", "e", "s", "t">>
LocalAddress == <<"f", "o", "o", "b", "a", "r">>

\* this._socket.write(bytes): a TypeError when this._socket is null; a socket
\* that has been ended takes no more bytes
socketWrite(c, bytes) ==
    IF ~c.socket THEN [c EXCEPT !.threw = "TypeError"]
    ELSE IF ~c.writable THEN c
    ELSE [c EXCEPT !.written = Append(@, bytes)]

\* the handshake _onConnect sends for the connInfo user%host
handshakeOf(connInfo) ==
    <<"A">> \o ToDecimal(Len(connInfo)) \o <<"H">> \o connInfo \o <<"\n">>

\* Client.prototype._onConnect
onConnect(c) ==
    IF ~c.socket THEN [c EXCEPT !.threw = "TypeError"]
    ELSE socketWrite(c, handshakeOf(User \o <<"%">> \o LocalAddress))

\* _onSocketClose setting the state and emitting nothing
onSocketCloseSilent(c) ==
    [c EXCEPT !.sockListeners = IF c.socket THEN FALSE ELSE @,
              !.socket = FALSE,
              !.state = "closed"]

\* Client.prototype._onSocketClose
onSocketClose(c) ==
    emit([c EXCEPT !.sockListeners = IF c.socket THEN FALSE ELSE @,
                   !.socket = FALSE,
                   !.state = "closed"],
         "close", <<>>)

\* Client.prototype._onHandshake
onHandshake(c) == emit([c EXCEPT !.state = "open"], "connect", <<>>)

\* close, rejecting the requests in the table as well
closeCancelling(c) ==
    IF c.state # "closed"
    THEN [RejectAll(c, DOMAIN c.requests, ClientError("closed"))
             EXCEPT !.state = "closed",
                    !.ended = IF c.socket THEN @ + 1 ELSE @,
                    !.writable = IF c.socket THEN FALSE ELSE @,
                    !.requests = <<>>]
    ELSE c

\* Client.prototype.close
close(c) ==
    IF c.state # "closed"
    THEN [c EXCEPT !.state = "closed",
                   !.ended = IF c.socket THEN @ + 1 ELSE @,
                   !.writable = IF c.socket THEN FALSE ELSE @]
    ELSE c


\* What a dispatcher function leaves: the client, and the tokens it returns
\* (None for null and for undefined)
Out(c, tokens) == [c |-> c, tokens |-> tokens]

\* the target functions of _parseResponse, _parseError and _parseAsync
ResolveTarget(req) == [kind |-> "resolve", req |-> req, name |-> ""]
ErrorTarget(req) == [kind |-> "error", req |-> req, name |-> ""]
\* getAsyncTarget emitting every message under one name
getAsyncTargetUnnamed(a) == [kind |-> "async", req |-> <<>>, name |-> "async"]
getAsyncTarget(a) == [kind |-> "async", req |-> <<>>, name |-> a.name]
NoopTarget == [kind |-> "noop", req |-> <<>>, name |-> ""]

\* getUnknownAsyncParser: a plain function, not a MessageParser
getUnknownAsyncParser(numParams) == [kind |-> "function", numParams |-> numParams]

\* errorNameOf without the lookup in the catalogue
errorNameUnnamed(errorCode) == "error-" \o ToString(errorCode)

\* the name _parseError's target gives the error code
errorNameOf(errorCode) ==
    IF errorCode \in DOMAIN errorCodes
    THEN errorCodes[errorCode]
    ELSE "error-" \o ToString(errorCode)

\* this._currentTarget(msg)
CallTarget(c, target, msg) ==
    CASE target.kind = "resolve" -> resolve(c, target.req, msg)
      [] target.kind = "error" ->
           reject(c, target.req,
                  RequestError([errorCode |-> msg.errorCode,
                                errorStatus |-> msg.errorStatus,
                                errorName |-> errorNameOf(msg.errorCode)]))
      [] target.kind = "async" -> emit(c, target.name, msg)
      [] target.kind = "noop" -> c

\* messageParsed leaving this._currentRequest set when the message is done
messageParsedKeeping(c, res) ==
    CASE res.r = "throw" -> Out(onError([c EXCEPT !.currentParser = Some(res.mp)], res.err), None)
      [] res.r = "null" -> Out([c EXCEPT !.currentParser = Some(res.mp)], None)
      [] res.r = "value" ->
           Out([CallTarget(c, The(c.currentTarget), The(getMessage(res.mp)))
                   EXCEPT !.currentParser = None,
                          !.currentTarget = None],
               Some(res.remaining))

\* _parseMessage after this._currentParser.parseTokens(tokens) has left res
messageParsed(c, res) ==
    CASE res.r = "throw" -> Out(onError([c EXCEPT !.currentParser = Some(res.mp)], res.err), None)
      [] res.r = "null" -> Out([c EXCEPT !.currentParser = Some(res.mp)], None)
      [] res.r = "value" ->
           Out([CallTarget(c, The(c.currentTarget), The(getMessage(res.mp)))
                   EXCEPT !.currentRequest = None,
                          !.currentParser = None,
                          !.currentTarget = None],
               Some(res.remaining))

\* Client.prototype._parseMessage
parseMessage(c, tokens) ==
    IF The(c.currentParser).kind # "MessageParser"
    THEN \* parseTokens is not a function: the TypeError is rethrown
         Out([c EXCEPT !.threw = "TypeError"], None)
    ELSE messageParsed(c, parseTokens(The(c.currentParser), tokens))

\* Delete without the delete: the entry stays in the table
DeleteNothing(reqs, refNo) == reqs

\* delete this._requests[refNo]
Delete(reqs, refNo) == [n \in DOMAIN reqs \ {refNo} |-> reqs[n]]

\* the lowest reference number of a table of requests
Oldest(reqs) == CHOOSE n \in DOMAIN reqs : \A o \in DOMAIN reqs : n <= o

\* _parseResponse taking the oldest request of the table for the one replied to
parseResponseInOrder(c, tokens) ==
    IF Len(tokens) < 2 THEN Out([c EXCEPT !.requiredTokens = 2], None)
    ELSE IF tokens[2].type # "int"
    THEN Out(protocolError(c, "expected =refNo, got: " \o tokens[2].type), None)
    ELSE IF tokens[2].value \notin DOMAIN c.requests
    THEN Out(protocolError(c, "unexpected reply refNo: " \o ToString(tokens[2].value)), None)
    ELSE parseMessage([c EXCEPT !.requests = Delete(c.requests, Oldest(c.requests)),
                                !.currentRequest = Some(c.requests[Oldest(c.requests)]),
                                !.currentParser =
                                    Some(getResponseParser(rpc[c.requests[Oldest(c.requests)].name])),
                                !.currentTarget = Some(ResolveTarget(c.requests[Oldest(c.requests)]))],
                      Slice(tokens, 2))

\* _parseResponse skipping the header of a reply to no request in the table
parseResponseSkipping(c, tokens) ==
    IF Len(tokens) < 2 THEN Out([c EXCEPT !.requiredTokens = 2], None)
    ELSE IF tokens[2].type # "int"
    THEN Out(protocolError(c, "expected =refNo, got: " \o tokens[2].type), None)
    ELSE IF tokens[2].value \notin DOMAIN c.requests
    THEN Out(c, Some(Slice(tokens, 2)))
    ELSE parseMessage([c EXCEPT !.requests = Delete(c.requests, tokens[2].value),
                                !.currentRequest = Some(c.requests[tokens[2].value]),
                                !.currentParser =
                                    Some(getResponseParser(rpc[c.requests[tokens[2].value].name])),
                                !.currentTarget = Some(ResolveTarget(c.requests[tokens[2].value]))],
                      Slice(tokens, 2))

\* _parseResponse without the shortcut into _parseMessage: the parser is
\* left for the tokens that follow the header
parseResponseNoShortcut(c, tokens) ==
    IF Len(tokens) < 2 THEN Out([c EXCEPT !.requiredTokens = 2], None)
    ELSE IF tokens[2].type # "int"
    THEN Out(protocolError(c, "expected =refNo, got: " \o tokens[2].type), None)
    ELSE IF tokens[2].value \notin DOMAIN c.requests
    THEN Out(protocolError(c, "unexpected reply refNo: " \o ToString(tokens[2].value)), None)
    ELSE Out([c EXCEPT !.requests = Delete(c.requests, tokens[2].value),
                       !.currentRequest = Some(c.requests[tokens[2].value]),
                       !.currentParser =
                           Some(getResponseParser(rpc[c.requests[tokens[2].value].name])),
                       !.currentTarget = Some(ResolveTarget(c.requests[tokens[2].value]))],
             Some(Slice(tokens, 2)))

\* Client.prototype._parseResponse
parseResponse(c, tokens) ==
    IF Len(tokens) < 2 THEN Out([c EXCEPT !.requiredTokens = 2], None)
    ELSE IF tokens[2].type # "int"
    THEN Out(protocolError(c, "expected =refNo, got: " \o tokens[2].type), None)
    ELSE IF tokens[2].value \notin DOMAIN c.requests
    THEN Out(protocolError(c, "unexpected reply refNo: " \o ToString(tokens[2].value)), None)
    ELSE parseMessage([c EXCEPT !.requests = Delete(c.requests, tokens[2].value),
                                !.currentRequest = Some(c.requests[tokens[2].value]),
                                !.currentParser =
                                    Some(getResponseParser(rpc[c.requests[tokens[2].value].name])),
                                !.currentTarget = Some(ResolveTarget(c.requests[tokens[2].value]))],
                      Slice(tokens, 2))

\* Client.prototype._parseError
parseError(c, tokens) ==
    IF Len(tokens) < 2 THEN Out([c EXCEPT !.requiredTokens = 2], None)
    ELSE IF tokens[2].type # "int"
    THEN Out(protocolError(c, "expected %refNo, got: " \o tokens[2].type), None)
    ELSE IF tokens[2].value \notin DOMAIN c.requests
    THEN Out(protocolError(c, "unexpected reply refNo: " \o ToString(tokens[2].value)), None)
    ELSE parseMessage([c EXCEPT !.requests = Delete(c.requests, tokens[2].value),
                                !.currentRequest = Some(c.requests[tokens[2].value]),
                                !.currentParser =
                                    Some(getErrorParser(rpc[c.requests[tokens[2].value].name])),
                                !.currentTarget = Some(ErrorTarget(c.requests[tokens[2].value]))],
                      Slice(tokens, 2))

\* Client.prototype._parseAsync
parseAsync(c, tokens) ==
    IF Len(tokens) < 3 THEN Out([c EXCEPT !.requiredTokens = 3], None)
    ELSE IF tokens[2].type # "int" \/ tokens[3].type # "int"
    THEN Out(protocolError(c, "expected :numParams msgNum, got: "
                              \o tokens[2].type \o " " \o tokens[3].type), None)
    ELSE IF tokens[3].value \in DOMAIN async
    THEN parseMessage([c EXCEPT !.currentParser = Some(getMessageParser(async[tokens[3].value])),
                                !.currentTarget = Some(getAsyncTarget(async[tokens[3].value]))],
                      Slice(tokens, 3))
    ELSE parseMessage([c EXCEPT !.currentParser = Some(getUnknownAsyncParser(tokens[2].value)),
                                !.currentTarget = Some(NoopTarget)],
                      Slice(tokens, 3))

\* _onTokens: this._bufferedTokens = null, unless the header needs more tokens
headerParsed(o) ==
    IF o.c.threw # "" \/ o.c.requiredTokens > 0 THEN o
    ELSE Out([o.c EXCEPT !.bufferedTokens = None], o.tokens)

\* parseHeader going on with the next token after a bad first token
parseHeaderGoingOn(c, tokens) ==
    CASE tokens[1].type = "=" -> headerParsed(parseResponse(c, tokens))
      [] tokens[1].type = "%" -> headerParsed(parseError(c, tokens))
      [] tokens[1].type = ":" -> headerParsed(parseAsync(c, tokens))
      [] OTHER -> Out(protocolError(c, "expected one of \"=%%:\", got: " \o tokens[1].type),
                      Some(Slice(tokens, 1)))

\* _onTokens: the switch on the type of the first token of a message
parseHeader(c, tokens) ==
    CASE tokens[1].type = "=" -> headerParsed(parseResponse(c, tokens))
      [] tokens[1].type = "%" -> headerParsed(parseError(c, tokens))
      [] tokens[1].type = ":" -> headerParsed(parseAsync(c, tokens))
      [] OTHER -> Out(protocolError(c, "expected one of \"=%%:\", got: " \o tokens[1].type), None)

\* the while loop of Client.prototype._onTokens
RECURSIVE TokenLoop(_)

\* the while loop taking a token =, % or : for a header whether a parser is
\* current or not
TokenLoopHeaderFirst(o) ==
    IF o.c.threw # "" \/ IsNone(o.tokens) \/ Len(The(o.tokens)) = 0 THEN o.c
    ELSE IF IsSome(o.c.currentParser) /\ The(o.tokens)[1].type \notin {"=", "%", ":"}
    THEN TokenLoop(parseMessage(o.c, The(o.tokens)))
    ELSE TokenLoop(parseHeader([o.c EXCEPT !.bufferedTokens = o.tokens], The(o.tokens)))

TokenLoop(o) ==
    IF o.c.threw # "" \/ IsNone(o.tokens) \/ Len(The(o.tokens)) = 0 THEN o.c
    ELSE IF IsSome(o.c.currentParser)
    THEN TokenLoop(parseMessage(o.c, The(o.tokens)))
    ELSE TokenLoop(parseHeader([o.c EXCEPT !.bufferedTokens = o.tokens], The(o.tokens)))

\* _onTokens forgetting the tokens it has buffered for a header
allTokensNew(c, tokens) == tokens

\* _onTokens: the tokens buffered for a header, with the new ones
allTokens(c, tokens) == The(c.bufferedTokens) \o tokens

\* _onTokens ignoring the tokens that arrive in state closed
onTokensUnlessClosed(c, tokens) ==
    IF c.state = "closed" THEN c
    ELSE IF c.requiredTokens > 0
    THEN IF Len(allTokens(c, tokens)) < c.requiredTokens
         THEN [c EXCEPT !.bufferedTokens = Some(allTokens(c, tokens))]
         ELSE TokenLoop(Out([c EXCEPT !.requiredTokens = 0], Some(allTokens(c, tokens))))
    ELSE TokenLoop(Out(c, Some(tokens)))

\* Client.prototype._onTokens
onTokens(c, tokens) ==
    IF c.requiredTokens > 0
    THEN IF Len(allTokens(c, tokens)) < c.requiredTokens
         THEN [c EXCEPT !.bufferedTokens = Some(allTokens(c, tokens))]
         ELSE TokenLoop(Out([c EXCEPT !.requiredTokens = 0], Some(allTokens(c, tokens))))
    ELSE TokenLoop(Out(c, Some(tokens)))

\* _onEndOfTokens looking at the parser alone, not at a header that waits
\* for more tokens
onEndOfTokensParserOnly(c) ==
    IF IsSome(c.currentParser)
    THEN protocolError(c, "unexpected end of data")
    ELSE c

\* Client.prototype._onEndOfTokens
onEndOfTokens(c) ==
    IF IsSome(c.currentParser) \/ c.requiredTokens > 0
    THEN protocolError(c, "unexpected end of data")
    ELSE c

\* requestFormatted with the reference number not advanced
requestFormattedSameRefNo(c, name, fr) ==
    IF fr.err # "" THEN [c EXCEPT !.threw = fr.err]
    ELSE socketWrite([c EXCEPT !.futures = Append(@, [name |-> name, refNo |-> c.nextRefNo,
                                                      settled |-> <<>>]),
                               !.requests =
                                   (c.nextRefNo :> [name |-> name, id |-> Len(c.futures) + 1])
                                   @@ Delete(c.requests, c.nextRefNo)],
                     fr.msg)

\* requestFormatted with the reference number advanced before the request is formatted
requestFormattedCounted(c, name, fr) ==
    IF fr.err # "" THEN [c EXCEPT !.threw = fr.err, !.nextRefNo = @ + 1]
    ELSE socketWrite([c EXCEPT !.nextRefNo = @ + 1,
                               !.futures = Append(@, [name |-> name, refNo |-> c.nextRefNo,
                                                      settled |-> <<>>]),
                               !.requests =
                                   (c.nextRefNo :> [name |-> name, id |-> Len(c.futures) + 1])
                                   @@ Delete(c.requests, c.nextRefNo)],
                     fr.msg)

\* the method after protocol.formatRequest has left fr: the request is stored
\* under the reference number and written to the socket
requestFormatted(c, name, fr) ==
    IF fr.err # "" THEN [c EXCEPT !.threw = fr.err]
    ELSE socketWrite([c EXCEPT !.nextRefNo = @ + 1,
                               !.futures = Append(@, [name |-> name, refNo |-> c.nextRefNo,
                                                      settled |-> <<>>]),
                               !.requests =
                                   (c.nextRefNo :> [name |-> name, id |-> Len(c.futures) + 1])
                                   @@ Delete(c.requests, c.nextRefNo)],
                     fr.msg)

\* the method without the check of this._state
MethodInAnyState(c, name, params) ==
    requestFormatted(c, name, formatRequest(rpc[name], c.nextRefNo, params))

\* the method generateMethod(name, rpc) installs, called with params
Method(c, name, params) ==
    IF c.state # "open" THEN [c EXCEPT !.threw = "ClientError"]
    ELSE requestFormatted(c, name, formatRequest(rpc[name], c.nextRefNo, params))


(***************************************************************************)
(* The program's environment: the calls of its user and the server         *)
(***************************************************************************)
MaxCalls == 2
MaxMsgs == 2

\* The request methods the user calls, and the parameters passed
CallNames == {"login", "acceptAsync", "getVersionInfo"}

Passwd == <<"p", "w">>

Params(name) ==
    CASE name = "login" ->
           {JObj([person |-> JNum(7), passwd |-> JStr(Passwd), invisible |-> JBool(FALSE)]),
            JObj([person |-> JNum(7), invisible |-> JBool(FALSE)]),
            JObj([person |-> JStr(<<"7">>), passwd |-> JStr(Passwd), invisible |-> JBool(FALSE)]),
            JObj([person |-> JNum(7), passwd |-> JNum(7), invisible |-> JBool(FALSE)])}
      [] name = "acceptAsync" -> {JObj([requestList |-> JNum(12)])}
      [] name = "getVersionInfo" -> {JObj(<<>>)}

\* The requests the server has received: refNo and RPC number of each buffer
\* written to the socket after the client's handshake
RECURSIVE LeadingDigits(_)
LeadingDigits(b) ==
    IF Len(b) = 0 \/ b[1] \notin {DigitChars[i] : i \in 1..10} THEN <<>>
    ELSE <<b[1]>> \o LeadingDigits(Slice(b, 1))

RefNoOf(b) == ParseInt(LeadingDigits(b))
RpcNumberOf(b) == ParseInt(LeadingDigits(Slice(b, Len(LeadingDigits(b)) + 1)))

IsRequest(b) == Len(LeadingDigits(b)) > 0
Received == SelectSeq(written, IsRequest)

NameOfNumber(n) == CHOOSE name \in DOMAIN rpc : rpc[name].number = n

\* The payloads a server sends in reply to a request of an RPC: the tokens, and
\* the message they stand for
Payloads(name) ==
    IF name = "getVersionInfo"
    THEN {[tokens |-> <<IntTok(v), StringToken(<<"l">>), StringToken(<<"2">>)>>,
           value |-> [protocolVersion |-> v, serverSoftware |-> <<"l">>,
                      softwareVersion |-> <<"2">>],
           ok |-> TRUE] : v \in {10, 11}}
         \cup {[tokens |-> <<StringToken(<<"l">>)>>, value |-> <<>>, ok |-> FALSE]}
    ELSE {[tokens |-> <<>>, value |-> <<>>, ok |-> TRUE]}

ErrorPayloads ==
    {[tokens |-> <<IntTok(code), IntTok(10)>>,
      value |-> [errorCode |-> code, errorStatus |-> 10], ok |-> TRUE] : code \in {4, 1}}
    \cup {[tokens |-> <<IntTok(4), StringToken(<<"f">>)>>, value |-> <<>>, ok |-> FALSE]}

Message(type, ref, p) ==
    [type |-> type, ref |-> ref, tokens |-> p.tokens, value |-> p.value, ok |-> p.ok]

\* The messages the server may send next
ServerMessages ==
    UNION {{Message("=", RefNoOf(Received[i]), p) :
                p \in Payloads(NameOfNumber(RpcNumberOf(Received[i])))}
           \cup {Message("%", RefNoOf(Received[i]), p) : p \in ErrorPayloads}
           : i \in 1..Len(Received)}
    \cup {Message(":", 7, [tokens |-> <<IntTok(0), IntTok(7)>>, value |-> <<>>, ok |-> TRUE]),
          Message(":", 8, [tokens |-> <<IntTok(1), IntTok(8), IntTok(5)>>,
                           value |-> [confNo |-> 5], ok |-> TRUE]),
          Message(":", 99, [tokens |-> <<IntTok(1), IntTok(99), IntTok(5)>>,
                            value |-> <<>>, ok |-> TRUE]),
          Message("0", 0, [tokens |-> <<>>, value |-> <<>>, ok |-> FALSE])}

\* The tokens of a message on the wire
WireTokens(m) ==
    CASE m.type \in {"=", "%"} -> <<SimpleToken(m.type), IntTok(m.ref)>> \o m.tokens
      [] m.type = ":" -> <<SimpleToken(":")>> \o m.tokens
      [] OTHER -> <<IntTok(0)>>

\* Data flows from the socket to the tokenizer
Flowing == connected /\ sockListeners /\ ~destroyed /\ ~peerEnded /\ ~sockClosed

(***************************************************************************)
(* The tokenizer (lib/tokenstream.js), byte by byte.                       *)
(*                                                                         *)
(* A tokenizer is a record of the closure variables of TokenStream and of  *)
(* what it has done:                                                       *)
(*   buffer           the bytes received and not yet consumed; null and    *)
(*                    an empty Buffer are one value here, since the code   *)
(*                    only concatenates buffer and tests                   *)
(*                    buffer && buffer.length                              *)
(*   expectHandshake  the handshake has not been seen yet                  *)
(*   listening        parser and the 'end' handler are attached to the     *)
(*                    stream                                               *)
(*   emitted          the events the TokenStream has emitted, in order     *)
(*   tokens, go, returned   the locals of one call of parser: the tokens   *)
(*                    pushed, whether the while loop goes on (data is      *)
(*                    buffer.toString('ascii') until the code empties it   *)
(*                    to leave the loop), whether the call has returned    *)
(*                    from inside the loop                                 *)
(* A byte above 127 is written by its escape; every other byte is the      *)
(* one-character string of its ASCII character.  The message of an error   *)
(* is the sequence of its pieces.                                          *)
(***************************************************************************)
Byte0xA5 == "\\xA5"

\* Buffer.prototype.toString('ascii'): the high bit of every byte is dropped
Ascii(buf) == [i \in DOMAIN buf |-> IF buf[i] = Byte0xA5 THEN "%" ELSE buf[i]]
\* Buffer.prototype.toString(): a byte that is no UTF-8 becomes U+FFFD
Utf8(buf) == [i \in DOMAIN buf |-> IF buf[i] = Byte0xA5 THEN "U+FFFD" ELSE buf[i]]

\* what \s matches, and the line terminators: where ^ and $ match under the
\* m flag, and what . does not match
WhiteSpace == {" ", "\t", "\n", "\r"}
LineTerminators == {"\n", "\r"}
SimpleChars == {"{", "}", "*", "=", "%", ":"}
Digits == {DigitChars[i] : i \in DOMAIN DigitChars}

FloatToken(whole, frac) ==
    [type |-> "float", string |-> <<>>, value |-> <<ParseInt(whole), frac>>, bytes |-> <<>>]

\* the length of the longest run in d, from index i on, of characters that
\* are in S (in = TRUE) or are not in S (in = FALSE): a greedy S* or [^S]*
Run(d, i, S, in) ==
    CHOOSE n \in 0..(Len(d) + 1 - i) :
        /\ \A j \in i..(i + n - 1) : (d[j] \in S) = in
        /\ i + n > Len(d) \/ (d[i + n] \in S) # in

At(d, i, S) == i \in DOMAIN d /\ d[i] \in S

\* /^\s*%%(.*)$/m matches at index i: i starts a line, and %% follows the
\* white space there
FrameAt(d, i) ==
    /\ i = 1 \/ d[i - 1] \in LineTerminators
    /\ At(d, i + Run(d, i, WhiteSpace, TRUE), {"%"})
    /\ At(d, i + Run(d, i, WhiteSpace, TRUE) + 1, {"%"})

IsFrame(d) == \E i \in DOMAIN d : FrameAt(d, i)

\* m.index of the match, the leftmost one; the index of m[1]; m[1], which
\* runs to the end of the line or of the data; m[0].length
FrameIndex(d) == CHOOSE i \in DOMAIN d : FrameAt(d, i) /\ \A j \in 1..(i - 1) : ~FrameAt(d, j)
FrameTextIndex(d) == FrameIndex(d) + Run(d, FrameIndex(d), WhiteSpace, TRUE) + 2
FrameTextLength(d) == Run(d, FrameTextIndex(d), LineTerminators, FALSE)
FrameText(d) == SubSeq(d, FrameTextIndex(d), FrameTextIndex(d) + FrameTextLength(d) - 1)
FrameLength(d) == FrameTextIndex(d) + FrameTextLength(d) - FrameIndex(d)

\* EventEmitter.prototype.emit on the TokenStream
Event(name, err, tokens) == [name |-> name, err |-> err, tokens |-> tokens]
tsEmit(p, name, err, tokens) == [p EXCEPT !.emitted = Append(@, Event(name, err, tokens))]

\* stream.removeAllListeners('data'), ('end'); buffer = null; return or data = ''
giveUp(p, ret) == [p EXCEPT !.listening = FALSE, !.buffer = <<>>, !.go = FALSE, !.returned = ret]

\* the branch of a %% frame that goes on after it, whatever expectHandshake is
serverErrorGoingOn(p) ==
    tsEmit([p EXCEPT !.buffer = Slice(@, FrameLength(Ascii(p.buffer)))],
           "error", ServerError(FrameText(Ascii(p.buffer))), <<>>)

\* lines 55-75: the branch of a %% frame.  consumed is the length of the
\* match, and it is cut from the start of data and of buffer
serverError(p) ==
    IF p.expectHandshake THEN giveUp(serverErrorGoingOn(p), TRUE)
    ELSE serverErrorGoingOn(p)

Handshake == <<"L", "y", "s", "K", "O", "M", "\n">>
Min(a, b) == IF a < b THEN a ELSE b

\* lines 78-103: the branch of the handshake
handshake(p) ==
    IF Take(Ascii(p.buffer), Min(7, Len(p.buffer))) # Take(Handshake, Min(7, Len(p.buffer)))
    THEN giveUp(tsEmit(p, "error",
                       ProtocolError(<<"bad server handshake: ">> \o Ascii(p.buffer)), <<>>),
                TRUE)
    ELSE IF Len(p.buffer) >= 7
    THEN [tsEmit(p, "handshake", NoError, <<>>)
             EXCEPT !.expectHandshake = FALSE, !.buffer = Slice(@, 7)]
    ELSE [p EXCEPT !.go = FALSE]

\* the pieces of the regular expressions of lines 109-181 on data d
Lead(d) == Run(d, 1, WhiteSpace, TRUE)
DigitsAt(d) == Run(d, Lead(d) + 1, Digits, TRUE)
FracAt(d) == Run(d, Lead(d) + DigitsAt(d) + 2, Digits, TRUE)
\* /^\s*([0-9]+)\s/
IsInt(d) == DigitsAt(d) >= 1 /\ At(d, Lead(d) + DigitsAt(d) + 1, WhiteSpace)
\* /^\s*([0-9]+)H/
IsString(d) == DigitsAt(d) >= 1 /\ At(d, Lead(d) + DigitsAt(d) + 1, {"H"})
\* /^\s*([{}*=%:])/
IsSimple(d) == At(d, Lead(d) + 1, SimpleChars)
\* /^\s*([0-9]+\.[0-9]+)\s/
IsFloat(d) ==
    /\ DigitsAt(d) >= 1 /\ At(d, Lead(d) + DigitsAt(d) + 1, {"."})
    /\ FracAt(d) >= 1 /\ At(d, Lead(d) + DigitsAt(d) + FracAt(d) + 2, WhiteSpace)
\* /^\s*[0-9]/ and /^\s+$/
IsPartial(d) == At(d, Lead(d) + 1, Digits)
IsBlank(d) == Len(d) >= 1 /\ Lead(d) = Len(d)

\* m[1] of the integer and string expressions; the two groups of digits of
\* the float; parseFloat drops the zeros that end the fraction
DigitsOf(d) == SubSeq(d, Lead(d) + 1, Lead(d) + DigitsAt(d))
FracOf(d) == SubSeq(d, Lead(d) + DigitsAt(d) + 2, Lead(d) + DigitsAt(d) + 1 + FracAt(d))
RECURSIVE Fraction(_)
Fraction(s) == IF Len(s) > 0 /\ s[Len(s)] = "0" THEN Fraction(Take(s, Len(s) - 1)) ELSE s

\* tokens.push(token); data = data.slice(consumed); buffer = buffer.slice(consumed)
push(p, token, consumed) ==
    [p EXCEPT !.tokens = Append(@, token), !.buffer = Slice(@, consumed)]

\* lines 125-146: prefix = m[0].length, consumed = prefix + stringLength;
\* the value is a slice of buffer, not of data
stringBranch(p, prefix, consumed) ==
    IF consumed <= Len(p.buffer)
    THEN push(p, StringToken(SubSeq(p.buffer, prefix + 1, consumed)), consumed)
    ELSE [p EXCEPT !.go = FALSE]

\* lines 106-197: the normal flow on data d = buffer.toString('ascii')
lex(p, d) ==
    IF IsInt(d) THEN push(p, IntToken(DigitsOf(d)), Lead(d) + DigitsAt(d) + 1)
    ELSE IF IsString(d)
    THEN stringBranch(p, Lead(d) + DigitsAt(d) + 1,
                      Lead(d) + DigitsAt(d) + 1 + ParseInt(DigitsOf(d)))
    ELSE IF IsSimple(d) THEN push(p, SimpleToken(d[Lead(d) + 1]), Lead(d) + 1)
    ELSE IF IsFloat(d)
    THEN push(p, FloatToken(DigitsOf(d), Fraction(FracOf(d))),
              Lead(d) + DigitsAt(d) + FracAt(d) + 2)
    ELSE IF IsPartial(d) THEN [p EXCEPT !.go = FALSE]
    ELSE IF IsBlank(d) THEN [p EXCEPT !.go = FALSE, !.buffer = <<>>]
    ELSE giveUp(tsEmit(p, "error",
                       ProtocolError(<<"unexpected data from server: ">> \o d), <<>>),
                FALSE)

\* one turn of the while loop of lines 51-198
turn(p) ==
    IF IsFrame(Ascii(p.buffer)) THEN serverError(p)
    ELSE IF p.expectHandshake THEN handshake(p)
    ELSE lex(p, Ascii(p.buffer))

RECURSIVE loop(_)
loop(p) == IF p.go /\ Len(p.buffer) > 0 THEN loop(turn(p)) ELSE p

\* lines 200-202
emitTokens(p) ==
    IF ~p.returned /\ Len(p.tokens) > 0 THEN tsEmit(p, "tokens", NoError, p.tokens) ELSE p

\* lines 34-203: parser(nextBuffer)
parser(t, nextBuffer) ==
    emitTokens(loop([t EXCEPT !.buffer = @ \o nextBuffer, !.tokens = <<>>,
                              !.go = TRUE, !.returned = FALSE]))

\* lines 211-216
badEnd(t) ==
    IF Len(t.buffer) > 0
    THEN tsEmit(t, "error",
                ProtocolError(<<"bad data at end of stream: ">> \o Utf8(t.buffer)), <<>>)
    ELSE t

\* lines 206-220: the handler of the stream's 'end'
onStreamEnd(t) ==
    tsEmit(IF Len(t.buffer) > 0 THEN badEnd(parser(t, <<"\n">>)) ELSE t, "end", NoError, <<>>)

\* lines 28-32: new TokenStream(stream, expectHandshake)
TokenStream(eh) ==
    [buffer |-> <<>>, expectHandshake |-> eh, listening |-> TRUE, emitted |-> <<>>,
     tokens |-> <<>>, go |-> FALSE, returned |-> FALSE]

(***************************************************************************)
(* The byte streams of a server.  A stream is a sequence of items, each    *)
(* with its bytes, its kind and, for a Hollerith string and a %% frame,    *)
(* its payload or text; the tokenizer reads the concatenation, cut into    *)
(* chunks at any place.                                                    *)
(***************************************************************************)
MaxPayload == 3
MaxItems == 2

Item(kind, bytes, text) == [kind |-> kind, bytes |-> bytes, text |-> text]

PayloadBytes == {" ", "\n", "7", "%", "{", "a", Byte0xA5}
StringPayloads == UNION {[1..n -> PayloadBytes] : n \in 0..MaxPayload}
Hollerith(b) == Item("string", ToDecimal(Len(b)) \o <<"H">> \o b, b)

HandshakeItem == Item("handshake", Handshake, <<>>)
FrameItem(text) == Item("frame", <<"%", "%">> \o text \o <<"\n">>, text)
Int12 == Item("int", <<"1", "2", " ">>, <<"1", "2">>)
Int7 == Item("int", <<"7", "\n">>, <<"7">>)
JunkItem == Item("junk", <<"x">>, <<>>)

\* the items of a well-formed stream besides the strings
Lexemes ==
    {Int12, Int7,
     Item("float", <<"1", ".", "5", "0", " ">>, <<>>),
     Item("simple", <<"=">>, <<>>),
     Item("simple", <<" ", "{">>, <<>>),
     FrameItem(<<"e", "r">>),
     Hollerith(<<"a", "\n">>)}

\* what a server sends in place of the handshake: the handshake, a %% frame,
\* a wrong handshake, half a handshake, nothing
Leads ==
    {<<HandshakeItem>>,
     <<FrameItem(<<"n", "o">>)>>,
     <<Item("junk", <<"L", "y", "s", "C">>, <<>>)>>,
     <<Item("junk", <<"L", "y", "s">>, <<>>)>>,
     <<>>}

ItemSeqs(S) == UNION {[1..n -> S] : n \in 0..MaxItems}

\* what a stream ends with when the server stops in the middle: an integer and
\* a float without the whitespace after them, a Hollerith string that lacks two
\* bytes or one, digits and a byte that is no token
Tails ==
    {Item("unterminated int", <<"4", "2">>, <<"4", "2">>),
     Item("unterminated float", <<"1", ".", "5">>, <<"5">>),
     Item("incomplete", <<"5", "H", "a", "b", "c">>, <<>>),
     Item("incomplete", <<"3", "H", "a", "b">>, <<>>),
     Item("incomplete", <<"1", "2", "x">>, <<>>)}

Streams ==
    {[eh |-> TRUE, items |-> l \o s] : l \in Leads, s \in ItemSeqs(Lexemes \cup {JunkItem})}
    \cup {[eh |-> FALSE, items |-> s] : s \in ItemSeqs(Lexemes \cup {JunkItem})}
    \cup {[eh |-> FALSE, items |-> <<Hollerith(b), Int12>>] : b \in StringPayloads}
    \cup {[eh |-> FALSE, items |-> s \o <<t>>] :
               s \in {<<>>} \cup {<<l>> : l \in Lexemes}, t \in Tails}
    \cup {[eh |-> TRUE, items |-> <<HandshakeItem, t>>] : t \in Tails}

RECURSIVE Concat(_)
Concat(items) == IF Len(items) = 0 THEN <<>> ELSE items[1].bytes \o Concat(Tail(items))

Input == Concat(stream.items)

\* the TokenStream, from the variables and back
Tokenizer ==
    [buffer |-> buffer, expectHandshake |-> expectHandshake, listening |-> listening,
     emitted |-> tsEmitted, tokens |-> <<>>, go |-> FALSE, returned |-> FALSE]

TokenizerBecomes(t) ==
    /\ buffer' = t.buffer
    /\ expectHandshake' = t.expectHandshake
    /\ listening' = t.listening
    /\ tsEmitted' = t.emitted

\* no stream is read byte by byte
NoStream ==
    /\ stream = [eh |-> TRUE, items |-> <<>>]
    /\ delivered = 0
    /\ streamEnded = FALSE
    /\ buffer = <<>>
    /\ listening = TRUE
    /\ tsEmitted = <<>>

(***************************************************************************)
(* The state after new Client(socket), and the actions                     *)
(***************************************************************************)
NewClient ==
    /\ state = "connecting"
    /\ nextRefNo = 0
    /\ requests = <<>>
    /\ currentRequest = None
    /\ currentParser = None
    /\ currentTarget = None
    /\ bufferedTokens = None
    /\ requiredTokens = 0
    /\ socket = TRUE
    /\ tokenstream = TRUE
    /\ written = <<>>
    /\ ended = 0
    /\ writable = TRUE
    /\ destroyed = FALSE
    /\ sockListeners = TRUE
    /\ tsListeners = TRUE
    /\ connected = FALSE
    /\ peerEnded = FALSE
    /\ sockClosed = FALSE
    /\ wire = <<>>
    /\ emitted = <<>>
    /\ futures = <<>>
    /\ threw = ""
    /\ promise = Waiting
    /\ sent = <<>>

\* no function is applied by itself
NoJob ==
    /\ job = <<>>
    /\ run = <<>>

Init ==
    /\ NewClient
    /\ expectHandshake = TRUE
    /\ NoStream
    /\ NoJob

\* the socket emits 'connect'
SocketConnect ==
    /\ ~connected /\ sockListeners /\ ~destroyed /\ ~sockClosed
    /\ connected' = TRUE
    /\ Becomes(onConnect(Client))
    /\ UNCHANGED <<expectHandshake, peerEnded, sockClosed, wire, sent>>
    /\ UNCHANGED <<tokVars, jobVars>>

\* the tokenizer has received the server's handshake and emits 'handshake'
ServerHandshake ==
    /\ Flowing /\ expectHandshake /\ tsListeners
    /\ expectHandshake' = FALSE
    /\ Becomes(onHandshake(Client))
    /\ UNCHANGED <<connected, peerEnded, sockClosed, wire, sent>>
    /\ UNCHANGED <<tokVars, jobVars>>

\* the user calls client[name](params)
Call(name, params) ==
    /\ Len(futures) < MaxCalls
    /\ Becomes(Method(Client, name, params))
    /\ UNCHANGED envVars
    /\ UNCHANGED <<tokVars, jobVars>>

\* the user calls client.close()
Close ==
    /\ Becomes(close(Client))
    /\ UNCHANGED envVars
    /\ UNCHANGED <<tokVars, jobVars>>

\* the server sends a message
ServerSend(m) ==
    /\ Flowing /\ ~expectHandshake
    /\ Len(sent) < MaxMsgs
    /\ sent' = Append(sent, m)
    /\ wire' = wire \o WireTokens(m)
    /\ UNCHANGED <<clientVars, ioVars, obsVars, expectHandshake, connected, peerEnded, sockClosed>>
    /\ UNCHANGED <<tokVars, jobVars>>

\* the tokenizer emits 'tokens' with the next k tokens
DeliverTokens(k) ==
    /\ Flowing /\ ~expectHandshake /\ tsListeners
    /\ k \in 1..Len(wire)
    /\ wire' = Slice(wire, k)
    /\ Becomes(onTokens(Client, Take(wire, k)))
    /\ UNCHANGED <<expectHandshake, connected, peerEnded, sockClosed, sent>>
    /\ UNCHANGED <<tokVars, jobVars>>

\* the peer ends the stream: the tokenizer emits 'end'
PeerEnd ==
    /\ Flowing /\ tsListeners
    /\ peerEnded' = TRUE
    /\ wire' = <<>>
    /\ Becomes([onEndOfTokens(Client) EXCEPT !.writable = FALSE])
    /\ UNCHANGED <<expectHandshake, connected, sockClosed, sent>>
    /\ UNCHANGED <<tokVars, jobVars>>

\* the socket emits 'close': after the peer has ended the stream or after destroy
SocketClose ==
    /\ sockListeners /\ ~sockClosed
    /\ peerEnded \/ destroyed
    /\ sockClosed' = TRUE
    /\ Becomes(onSocketClose(Client))
    /\ UNCHANGED <<expectHandshake, connected, peerEnded, wire, sent>>
    /\ UNCHANGED <<tokVars, jobVars>>

\* the socket emits 'error'
SocketError ==
    /\ sockListeners /\ ~sockClosed /\ ~destroyed
    /\ Becomes(onError(Client, OtherError("Error", "socket")))
    /\ wire' = <<>>
    /\ UNCHANGED <<expectHandshake, connected, peerEnded, sockClosed, sent>>
    /\ UNCHANGED <<tokVars, jobVars>>

\* the tokenizer emits 'error': a ServerError for a %% frame, a ProtocolError
\* for bytes that are no token or no handshake
TokenstreamError(err) ==
    /\ Flowing /\ tsListeners
    /\ Becomes(onError(Client, err))
    /\ wire' = <<>>
    /\ UNCHANGED <<expectHandshake, connected, peerEnded, sockClosed, sent>>
    /\ UNCHANGED <<tokVars, jobVars>>



Next ==
    \/ SocketConnect
    \/ ServerHandshake
    \/ \E name \in CallNames : \E params \in Params(name) : Call(name, params)
    \/ Close
    \/ \E m \in ServerMessages : ServerSend(m)
    \/ \E k \in 1..Len(wire) : DeliverTokens(k)
    \/ PeerEnd
    \/ SocketClose
    \/ SocketError
    \/ \E err \in {ServerError("x"), ProtocolError("unexpected data from server: x")} :
           TokenstreamError(err)

Spec == Init /\ [][Next]_vars

(***************************************************************************)
(* The tokenizer alone, on a stream cut into chunks                         *)
(***************************************************************************)
\* new TokenStream(stream, expectHandshake) on one of the streams
TokInit ==
    /\ NewClient
    /\ stream \in Streams
    /\ delivered = 0
    /\ streamEnded = FALSE
    /\ buffer = TokenStream(stream.eh).buffer
    /\ expectHandshake = TokenStream(stream.eh).expectHandshake
    /\ listening = TokenStream(stream.eh).listening
    /\ tsEmitted = TokenStream(stream.eh).emitted
    /\ NoJob

\* the stream emits 'data' with the next k bytes
StreamData(k) ==
    /\ ~streamEnded
    /\ k \in 1..(Len(Input) - delivered)
    /\ delivered' = delivered + k
    /\ IF listening
       THEN TokenizerBecomes(parser(Tokenizer, SubSeq(Input, delivered + 1, delivered + k)))
       ELSE UNCHANGED <<buffer, expectHandshake, listening, tsEmitted>>
    /\ UNCHANGED <<stream, streamEnded>>
    /\ UNCHANGED <<clientVars, ioVars, obsVars, connected, peerEnded, sockClosed, wire, sent>>
    /\ UNCHANGED jobVars

\* the stream emits 'end'
StreamEnd ==
    /\ ~streamEnded
    /\ delivered = Len(Input)
    /\ streamEnded' = TRUE
    /\ IF listening
       THEN TokenizerBecomes(onStreamEnd(Tokenizer))
       ELSE UNCHANGED <<buffer, expectHandshake, listening, tsEmitted>>
    /\ UNCHANGED <<stream, delivered>>
    /\ UNCHANGED <<clientVars, ioVars, obsVars, connected, peerEnded, sockClosed, wire, sent>>
    /\ UNCHANGED jobVars

TokNext ==
    \/ \E k \in 1..Len(Input) : StreamData(k)
    \/ StreamEnd

TokSpec == TokInit /\ [][TokNext]_vars

(***************************************************************************)
(* Properties                                                              *)
(***************************************************************************)
Settled(i) == futures[i].settled
Pending(i) == futures[i].settled = <<>>

\* What the future f has been completed with
OutcomesOf(f) ==
    [j \in DOMAIN f.settled |->
        [kind |-> f.settled[j].kind, value |-> f.settled[j].value, err |-> f.settled[j].err]]
Outcomes(i) == OutcomesOf(futures[i])

Resolved(msg) == [kind |-> "resolve", value |-> msg, err |-> NoError]
Rejected(err) == [kind |-> "reject", value |-> <<>>, err |-> err]

\* The dispatcher is between two messages
AtHeader == IsNone(currentParser) /\ requiredTokens = 0

\* The connection is up and the dispatcher has parsed all the server has sent
Quiescent == Flowing /\ tsListeners /\ wire = <<>> /\ AtHeader

\* C1: a reply =n resolves the future of exactly the request that was given
\* refNo n, with the value its response schema parses from the payload, and
\* completes no other future.  Every resolution of a future is the value of a
\* reply sent for its refNo, no future is completed twice, and once the
\* dispatcher has parsed all the server has sent, every reply has resolved its
\* request, whatever the order of the replies.
C1_ReplyResolvesItsRequest ==
    /\ \A i \in DOMAIN futures :
          /\ Len(Settled(i)) <= 1
          /\ \A j \in DOMAIN Settled(i) :
                Settled(i)[j].kind = "resolve" =>
                    \E k \in DOMAIN sent :
                        /\ sent[k].type = "=" /\ sent[k].ok
                        /\ sent[k].ref = futures[i].refNo
                        /\ Settled(i)[j].value = sent[k].value
    /\ Quiescent =>
          \A k \in DOMAIN sent :
              sent[k].type = "=" =>
                  \E i \in DOMAIN futures :
                      /\ futures[i].refNo = sent[k].ref
                      /\ Outcomes(i) = <<Resolved(sent[k].value)>>

\* Two requests in flight, replied to in the reverse order, each resolved
\* with its own reply
C1_Witness ==
    /\ Len(futures) = 2 /\ Len(sent) = 2
    /\ sent[1].type = "=" /\ sent[1].ref = 1
    /\ sent[2].type = "=" /\ sent[2].ref = 0
    /\ futures[1].name = "getVersionInfo" /\ futures[2].name = "login"
    /\ Outcomes(1) = <<Resolved([protocolVersion |-> 11, serverSoftware |-> <<"l">>,
                                softwareVersion |-> <<"2">>])>>
    /\ Outcomes(2) = <<Resolved(<<>>)>>

\* An error reply % n code status is the next message on the wire, and n is in flight
ErrorReplyAhead(n) ==
    /\ AtHeader /\ Len(wire) >= 4
    /\ wire[1].type = "%" /\ wire[2].type = "int" /\ wire[2].value = n
    /\ wire[3].type = "int" /\ wire[4].type = "int"
    /\ n \in DOMAIN requests

\* C2: an error reply %n code status for an in-flight refNo n rejects request
\* n alone, with a RequestError carrying code, status and the catalogue name
\* of code (error-<code> when the catalogue has none); the state does not
\* change, no event is emitted, and every other request stays as it was.
C2_ErrorReplyRejectsItsRequest ==
    [][\A n \in DOMAIN requests :
          (ErrorReplyAhead(n) /\ DeliverTokens(4)) =>
              /\ state' = state
              /\ emitted' = emitted
              /\ requests' = [m \in DOMAIN requests \ {n} |-> requests[m]]
              /\ DOMAIN futures' = DOMAIN futures
              /\ \A i \in DOMAIN futures :
                    IF futures[i].refNo = n
                    THEN /\ Len(futures'[i].settled) = 1
                         /\ futures'[i].settled[1].kind = "reject"
                         /\ futures'[i].settled[1].err.name = "RequestError"
                         /\ futures'[i].settled[1].err.errorCode = wire[3].value
                         /\ futures'[i].settled[1].err.errorStatus = wire[4].value
                         /\ futures'[i].settled[1].err.errorName =
                                IF wire[3].value \in DOMAIN errorCodes
                                THEN errorCodes[wire[3].value]
                                ELSE "error-" \o ToString(wire[3].value)
                    ELSE futures'[i] = futures[i]]_vars

\* Of two requests, one has been rejected by an error reply with a code the
\* catalogue names, the other is pending, and the client is open
C2_Witness ==
    /\ state = "open" /\ Len(futures) = 2
    /\ \A e \in DOMAIN emitted : emitted[e].name # "error"
    /\ Pending(1) /\ 0 \in DOMAIN requests
    /\ Len(Settled(2)) = 1
    /\ Settled(2)[1].kind = "reject"
    /\ Settled(2)[1].err.name = "RequestError"
    /\ Settled(2)[1].err.errorCode = 4
    /\ Settled(2)[1].err.errorName = "invalid-password"
    /\ Settled(2)[1].err.errorStatus = 10

\* C3: the refNo values written to the socket are 0, 1, 2, ... in call order,
\* and no two requests, in flight or completed, share a refNo.
C3_RefNosCountFromZero ==
    /\ \A k \in DOMAIN Received : RefNoOf(Received[k]) = k - 1
    /\ \A i \in DOMAIN futures : futures[i].refNo = i - 1
    /\ \A n \in DOMAIN requests : n < nextRefNo /\ futures[requests[n].id].refNo = n

\* Two requests have been written, and the first of them is completed
C3_Witness ==
    /\ Len(Received) = 2
    /\ RefNoOf(Received[1]) = 0 /\ RefNoOf(Received[2]) = 1
    /\ ~Pending(1) /\ Pending(2)

\* The request of future i is in the in-flight table
InTable(i) == \E n \in DOMAIN requests : requests[n].id = i

\* The reply to the request of future i is being parsed
BeingParsed(i) == IsSome(currentRequest) /\ The(currentRequest).id = i

\* C4 as stated: in every reachable state a sent request is in the in-flight
\* table if and only if its future has not been resolved or rejected.
C4_TableIsThePending == \A i \in DOMAIN futures : InTable(i) <=> Pending(i)

\* C4 as amended: a sent request's future is unsettled if and only if the
\* request is in the in-flight table or is the request whose reply is being
\* parsed; a request is never both.
C4_PendingInTableOrBeingParsed ==
    \A i \in DOMAIN futures :
        /\ Pending(i) <=> (InTable(i) \/ BeingParsed(i))
        /\ ~(InTable(i) /\ BeingParsed(i))

\* The header of a reply has been parsed and its body has not: the request
\* has left the table and its future is pending
C4_Witness ==
    \E i \in DOMAIN futures :
        /\ BeingParsed(i) /\ ~InTable(i) /\ Pending(i)
        /\ IsSome(currentParser) /\ state = "open"

\* A step emits 'error' with a ProtocolError: the client is closed, the table
\* empty, and every request that was pending is rejected with that error
ProtocolTeardown ==
    /\ Len(emitted') > Len(emitted)
    /\ emitted'[Len(emitted')].name = "error"
    /\ emitted'[Len(emitted')].arg.name = "ProtocolError"
    /\ state' = "closed"
    /\ requests' = <<>>
    /\ DOMAIN futures' = DOMAIN futures
    /\ \A i \in DOMAIN futures :
          IF Pending(i)
          THEN OutcomesOf(futures'[i]) = <<Rejected(emitted'[Len(emitted')].arg)>>
          ELSE futures'[i] = futures[i]

\* The next message on the wire starts with a token that is none of = % :
BadStartAhead == AtHeader /\ Len(wire) >= 1 /\ wire[1].type \notin {"=", "%", ":"}

\* The next message on the wire is a reply to an in-flight getVersionInfo
\* whose first field is a string, not an int
BadReplyAhead ==
    /\ AtHeader /\ Len(wire) >= 3
    /\ wire[1].type = "=" /\ wire[2].type = "int" /\ wire[2].value \in DOMAIN requests
    /\ requests[wire[2].value].name = "getVersionInfo"
    /\ wire[3].type = "string"

\* C5: a ProtocolError, from the tokenizer, from a schema parser that sees a
\* token of the wrong type or from the dispatcher seeing a message that
\* starts with none of = % :, makes the client emit 'error' with that error,
\* reject the request whose reply is being parsed and every other in-flight
\* request with it, empty the in-flight table and end in state closed.  (A
\* request completed by a reply earlier in the same batch of tokens is not in
\* flight when the error occurs.)
C5_ProtocolErrorTearsDown ==
    [][/\ TokenstreamError(ProtocolError("unexpected data from server: x")) =>
              /\ ProtocolTeardown
              /\ emitted'[Len(emitted')].arg = ProtocolError("unexpected data from server: x")
       /\ \A k \in 1..Len(wire) : (BadStartAhead /\ DeliverTokens(k)) => ProtocolTeardown
       /\ \A k \in 3..Len(wire) : (BadReplyAhead /\ DeliverTokens(k)) => ProtocolTeardown
       /\ (/\ Len(emitted') > Len(emitted)
           /\ emitted'[Len(emitted')].name = "error"
           /\ emitted'[Len(emitted')].arg.name = "ProtocolError") =>
              /\ state' = "closed"
              /\ requests' = <<>>
              /\ currentRequest' = None
              /\ \A i \in DOMAIN futures :
                    /\ Len(futures'[i].settled) = 1
                    /\ Pending(i) =>
                          \/ OutcomesOf(futures'[i]) = <<Rejected(emitted'[Len(emitted')].arg)>>
                          \/ futures'[i].settled[1].kind = "resolve"
                          \/ futures'[i].settled[1].err.name = "RequestError"]_vars

\* The reply to one of two requests had a string where its schema has an int:
\* both requests are rejected with the parser's ProtocolError, which the
\* client has emitted
C5_Witness ==
    /\ state = "closed" /\ requests = <<>> /\ Len(futures) = 2
    /\ Len(emitted) > 0
    /\ emitted[Len(emitted)] = [name |-> "error", arg |-> ProtocolError("expected int, got string")]
    /\ \A i \in DOMAIN futures :
          Outcomes(i) = <<Rejected(ProtocolError("expected int, got string"))>>

\* C6 as stated: close() with requests in flight cancels them: every request
\* pending when close() is called has its future completed with a failure.
C6_CloseCancelsPending ==
    [][(state # "closed" /\ Close) =>
           \A i \in DOMAIN futures :
               Pending(i) => /\ Len(futures'[i].settled) = 1
                             /\ futures'[i].settled[1].kind = "reject"]_vars

\* C6 as amended: close() with requests in flight does not cancel them: it
\* completes no future and takes nothing out of the in-flight table; it sets
\* the state to closed and ends the socket for writing, and leaves the
\* listeners of the socket and of the tokenizer attached.
C6_CloseLeavesPending ==
    [][(state # "closed" /\ Close) =>
           /\ futures' = futures
           /\ requests' = requests
           /\ currentRequest' = currentRequest
           /\ currentParser' = currentParser
           /\ state' = "closed"
           /\ ended' = ended + 1 /\ ~writable'
           /\ tsListeners' = tsListeners /\ sockListeners' = sockListeners
           /\ ~destroyed']_vars

\* close() has been called with a request in flight, which is still pending
\* and in the table while the connection is up
C6_Witness ==
    /\ state = "closed" /\ ended = 1 /\ Flowing /\ tsListeners
    /\ Len(Received) = 1 /\ Len(futures) = 1
    /\ Pending(1) /\ InTable(1)

\* C7: when the peer has ended the stream and the socket has closed with
\* requests in flight and no reply being parsed, the requests are failed: no
\* future is pending once the client is closed.
C7_SocketCloseFailsPending ==
    (peerEnded /\ sockClosed /\ state = "closed") => \A i \in DOMAIN futures : ~Pending(i)

\* The call is a request method's, made with the client not open
CallNotOpen(name, params) == state # "open" /\ Call(name, params)

\* C8: a request method called in a state other than open, connecting or
\* closed, throws a ClientError, writes nothing to the socket, adds nothing
\* to the in-flight table and does not advance the refNo counter.
C8_NotOpenCallFails ==
    [][\A name \in CallNames : \A params \in Params(name) :
           CallNotOpen(name, params) =>
               /\ threw' = "ClientError"
               /\ written' = written
               /\ requests' = requests
               /\ nextRefNo' = nextRefNo
               /\ futures' = futures
               /\ state' = state]_vars

\* A request method has thrown a ClientError in a client that is not open,
\* after a request had been sent: the counter and the table are as they were
C8_Witness ==
    /\ threw = "ClientError" /\ state = "closed"
    /\ Len(Received) = 1 /\ nextRefNo = 1 /\ DOMAIN requests = {0}

\* The parameters the formatter of the request rejects: a missing field, an
\* int field that is no number, a string field that is neither text nor
\* bytes, an array field that is no array
Unformattable(name, params) ==
    CASE name = "login" ->
           \/ ~HasOwn(params, "person") \/ ~HasOwn(params, "passwd")
           \/ ~HasOwn(params, "invisible")
           \/ Get(params, "person").t # "number"
           \/ Get(params, "passwd").t \notin {"string", "buffer"}
      [] name = "acceptAsync" -> Get(params, "requestList").t # "array"
      [] name = "getVersionInfo" -> FALSE

\* C9: when the formatter rejects the parameters, the call throws a
\* ClientError and leaves the client unchanged: nothing is written, no
\* in-flight entry is made, the refNo counter is not advanced and the state
\* stays open; the next valid call uses the refNo the failed call would have
\* used.
C9_RejectedParamsChangeNothing ==
    [][\A name \in CallNames : \A params \in Params(name) :
           (state = "open" /\ Call(name, params)) =>
               IF Unformattable(name, params)
               THEN /\ threw' = "ClientError"
                    /\ written' = written
                    /\ requests' = requests
                    /\ nextRefNo' = nextRefNo
                    /\ futures' = futures
                    /\ state' = "open"
               ELSE /\ threw' = ""
                    /\ futures' = Append(futures, [name |-> name, refNo |-> nextRefNo,
                                                   settled |-> <<>>])
                    /\ writable => /\ Len(written') = Len(written) + 1
                                   /\ RefNoOf(written'[Len(written')]) = nextRefNo
                    /\ nextRefNo' = nextRefNo + 1]_vars

\* A call with parameters the formatter rejects has thrown, after one request
\* had been sent and before the next
C9_Witness ==
    /\ threw = "ClientError" /\ state = "open"
    /\ Len(Received) = 1 /\ nextRefNo = 1 /\ Len(futures) = 1

\* C10: closed is a terminal state: once the state is closed, no later event,
\* a server handshake after close() in particular, makes it open or
\* connecting again, and no 'connect' event is emitted afterwards.
C10_ClosedIsTerminal ==
    [][state = "closed" =>
           /\ state' = "closed"
           /\ \A e \in DOMAIN emitted' :
                  e > Len(emitted) => emitted'[e].name # "connect"]_vars

\* C11: close() is idempotent: a second or later close(), and a close() after
\* a fatal error or after the socket has closed, changes no state of the
\* client, does not end the socket again and throws nothing.
C11_CloseIsIdempotent ==
    [][((ended > 0 \/ state = "closed") /\ Close) =>
           /\ UNCHANGED <<clientVars, ioVars, emitted, futures>>
           /\ threw' = ""]_vars

\* A complete reply = n is the next message on the wire, k tokens long, to a
\* request in flight
ReplyAhead(n, k) ==
    /\ AtHeader /\ Len(wire) >= k
    /\ wire[1].type = "=" /\ wire[2].type = "int" /\ wire[2].value = n
    /\ n \in DOMAIN requests
    /\ IF requests[n].name = "getVersionInfo"
       THEN k = 5 /\ wire[3].type = "int" /\ wire[4].type = "string" /\ wire[5].type = "string"
       ELSE k = 2

\* The value the response schema of request n gives the reply ahead
ReplyValue(n) ==
    IF requests[n].name = "getVersionInfo"
    THEN [protocolVersion |-> wire[3].value, serverSoftware |-> wire[4].bytes,
          softwareVersion |-> wire[5].bytes]
    ELSE <<>>

\* C12: after close(), the replies and error replies to requests written
\* before it, arriving while the socket is still up, are parsed and delivered
\* to the futures of those requests.
C12_RepliesDrainAfterClose ==
    [][\A n \in DOMAIN requests :
          /\ \A k \in {2, 5} :
                (ended > 0 /\ state = "closed" /\ ReplyAhead(n, k) /\ DeliverTokens(k)) =>
                    /\ OutcomesOf(futures'[requests[n].id]) = <<Resolved(ReplyValue(n))>>
                    /\ n \notin DOMAIN requests'
          /\ (ended > 0 /\ state = "closed" /\ ErrorReplyAhead(n) /\ DeliverTokens(4)) =>
                    /\ Len(futures'[requests[n].id].settled) = 1
                    /\ futures'[requests[n].id].settled[1].kind = "reject"
                    /\ futures'[requests[n].id].settled[1].err.name = "RequestError"
                    /\ futures'[requests[n].id].settled[1].err.errorCode = wire[3].value
                    /\ n \notin DOMAIN requests']_vars

\* Two requests were written and close() called: the one has been resolved by
\* its reply and the other rejected by its error reply, both in state closed
C12_Witness ==
    /\ state = "closed" /\ ended = 1 /\ Len(futures) = 2
    /\ Len(Settled(1)) = 1 /\ Len(Settled(2)) = 1
    /\ Settled(1)[1].kind = "resolve" /\ Settled(1)[1].state = "closed"
    /\ Settled(2)[1].kind = "reject" /\ Settled(2)[1].state = "closed"
    /\ Settled(2)[1].err.name = "RequestError"

\* The names of the events of the catalogue of async messages
AsyncNames == {async[m].name : m \in DOMAIN async}

\* C13 as stated: a batch of tokens that arrives in state closed resolves no
\* future, rejects no future and emits no async event.
C13_ClosedIgnoresTokens ==
    [][\A k \in 1..Len(wire) :
          (state = "closed" /\ DeliverTokens(k)) =>
              futures' = futures /\ emitted' = emitted]_vars

\* C13 as amended: once the client has been closed by a fatal error, the
\* dispatcher ignores further tokens: after the 'error' event no future is
\* resolved, none is rejected but by that error, and no async event is
\* emitted.  (Tokens that arrive after close() are dispatched.)
C13_ErrorStopsDispatch ==
    \A e \in DOMAIN emitted :
        emitted[e].name = "error" =>
            /\ \A l \in DOMAIN emitted : l > e => emitted[l].name = "close"
            /\ \A i \in DOMAIN futures : \A j \in DOMAIN Settled(i) :
                  Settled(i)[j].after >= e =>
                      /\ Settled(i)[j].kind = "reject"
                      /\ Settled(i)[j].err = emitted[e].arg

\* A message that starts with an int was followed by an async message, and
\* all the tokens have been delivered: the error is the last event, and the
\* async message has not been dispatched
C13_Witness ==
    /\ Len(sent) = 2 /\ sent[1].type = "0" /\ sent[2].type = ":" /\ sent[2].ref = 8
    /\ wire = <<>> /\ state = "closed" /\ ~tsListeners
    /\ emitted[Len(emitted)].name = "error"
    /\ emitted[Len(emitted)].arg.name = "ProtocolError"
    /\ \A e \in DOMAIN emitted : emitted[e].name \notin AsyncNames

\* A step emits 'error' with the ServerError of the frame %%x and tears the
\* client down
ServerErrorTeardown ==
    /\ emitted'[Len(emitted')] = [name |-> "error", arg |-> ServerError("x")]
    /\ Len(emitted') > Len(emitted)
    /\ state' = "closed"
    /\ destroyed'
    /\ requests' = <<>>
    /\ \A i \in DOMAIN futures :
          IF Pending(i)
          THEN OutcomesOf(futures'[i]) = <<Rejected(ServerError("x"))>>
          ELSE futures'[i] = futures[i]

\* C14 as stated: a %% frame received in state open is reported by the
\* client's 'error' event and the connection survives: the state stays open,
\* the socket is not destroyed and the requests in flight are not rejected.
C14_ServerErrorSurvived ==
    [][(state = "open" /\ ~expectHandshake /\ TokenstreamError(ServerError("x"))) =>
           /\ emitted'[Len(emitted')] = [name |-> "error", arg |-> ServerError("x")]
           /\ state' = "open"
           /\ ~destroyed'
           /\ futures' = futures
           /\ requests' = requests]_vars

\* C14 as amended: a %% frame received after the handshake is reported by the
\* client's 'error' event with a ServerError and is fatal to the client: the
\* socket is destroyed, the state becomes closed, every request in flight is
\* rejected with the ServerError and the table is emptied.
C14_ServerErrorTearsDown ==
    [][(~expectHandshake /\ TokenstreamError(ServerError("x"))) => ServerErrorTeardown]_vars

\* A %% frame came with a request in flight in state open: the request is
\* rejected with the ServerError and the socket destroyed
C14_Witness ==
    /\ state = "closed" /\ destroyed /\ ~expectHandshake /\ requests = <<>>
    /\ Len(futures) = 1 /\ Len(Received) = 1
    /\ Outcomes(1) = <<Rejected(ServerError("x"))>>
    /\ emitted[Len(emitted)] = [name |-> "error", arg |-> ServerError("x")]

(***************************************************************************)
(* The tokenizer's properties, under TokSpec                               *)
(***************************************************************************)
\* The tokens and signals of a sequence of events, one by one
RECURSIVE Flat(_)
Flat(evs) ==
    IF Len(evs) = 0 THEN <<>>
    ELSE (IF evs[1].name = "tokens"
          THEN [i \in DOMAIN evs[1].tokens |-> Event("token", NoError, <<evs[1].tokens[i]>>)]
          ELSE <<evs[1]>>) \o Flat(Tail(evs))

IsToken(e) == e.name = "token"
IsErrorEvent(e) == e.name = "error"
IsHandshakeEvent(e) == e.name = "handshake"
TokensOf(evs) == [i \in DOMAIN SelectSeq(Flat(evs), IsToken) |->
                      SelectSeq(Flat(evs), IsToken)[i].tokens[1]]

\* What a TokenStream emits when the stream s arrives as one chunk and ends
Ended(t) == IF t.listening THEN onStreamEnd(t) ELSE t
OneChunk(s) ==
    Ended(IF Len(Concat(s.items)) = 0 THEN TokenStream(s.eh)
          ELSE parser(TokenStream(s.eh), Concat(s.items)))

TokenKinds == {"int", "float", "simple", "string"}
EndsLine(item) == item.bytes[Len(item.bytes)] = "\n"

\* A well-formed stream: the handshake first when one is expected, then
\* numbers with their terminator, strings, simple tokens and %% frames, a
\* frame at the start of a line
WellFormed(s) ==
    /\ s.eh => Len(s.items) > 0 /\ s.items[1] = HandshakeItem
    /\ \A i \in DOMAIN s.items :
          /\ s.items[i].kind \in TokenKinds \cup {"frame"} \/ (s.eh /\ i = 1)
          /\ s.items[i].kind = "frame" => i = 1 \/ EndsLine(s.items[i - 1])

\* the number of bytes up to the end of item i
EndOf(s, i) == Len(Concat(Take(s.items, i)))
\* the token items that have arrived whole
Arrived(s) == {i \in DOMAIN s.items : s.items[i].kind \in TokenKinds /\ EndOf(s, i) <= delivered}

\* the first %% frame of the stream that starts a line, and its text as far
\* as it has arrived when n bytes have
IsLineFrame(s, i) == s.items[i].kind = "frame" /\ (i = 1 \/ EndsLine(s.items[i - 1]))
FirstFrame(s) == CHOOSE i \in DOMAIN s.items :
                    IsLineFrame(s, i) /\ \A j \in 1..(i - 1) : ~IsLineFrame(s, j)
FrameArrived(s, n) ==
    Take(s.items[FirstFrame(s)].text,
         Min(Len(s.items[FirstFrame(s)].text), n - (EndOf(s, FirstFrame(s) - 1) + 2)))

\* the step emits a ServerError while the tokenizer awaits the handshake:
\* one was expected and none has been signalled before the error
ServerErrorEmitted ==
    /\ stream.eh
    /\ \E i \in (Len(tsEmitted) + 1)..Len(tsEmitted') :
          /\ tsEmitted'[i].name = "error" /\ tsEmitted'[i].err.name = "ServerError"
          /\ \A j \in 1..(i - 1) : tsEmitted'[j].name # "handshake"

C16_ChunkingInvariant ==
    WellFormed(stream) =>
        /\ streamEnded => Flat(tsEmitted) = Flat(OneChunk(stream).emitted)
        /\ Len(TokensOf(tsEmitted)) <= Cardinality(Arrived(stream))

\* C17: the String token of a Hollerith string has the payload bytes as its
\* value, whatever they are, and the tokens after it are those of the bytes
\* after the payload.  Stated for the streams that start with a string and
\* have no %% frame.
C17_PayloadIsExact ==
    (/\ streamEnded /\ ~stream.eh /\ WellFormed(stream)
     /\ Len(stream.items) > 0 /\ stream.items[1].kind = "string"
     /\ \A i \in DOMAIN stream.items : stream.items[i].kind # "frame") =>
        /\ \A i \in DOMAIN tsEmitted : tsEmitted[i].name # "error"
        /\ Len(TokensOf(tsEmitted)) > 0
        /\ TokensOf(tsEmitted)[1] = StringToken(stream.items[1].text)
        /\ Tail(TokensOf(tsEmitted)) =
               TokensOf(OneChunk([eh |-> FALSE, items |-> Tail(stream.items)]).emitted)

IsPrefix(a, b) == Len(a) <= Len(b) /\ a = Take(b, Len(a))
HandshakeEvents == SelectSeq(tsEmitted, IsHandshakeEvent)

\* C18: a tokenizer that expects the handshake emits no token before the
\* handshake signal, and no handshake signal before the 7 bytes LysKOM\n
\* have arrived; once they have arrived, however chunked, it has signalled
\* handshake exactly once and tokenizes what follows; when the bytes that
\* have arrived are no prefix of LysKOM\n it has emitted one error (a
\* ProtocolError, or the ServerError of a %% frame), has stopped reading and
\* emits no token.
C18_HandshakeFirst ==
    stream.eh =>
        /\ \A i \in DOMAIN tsEmitted : tsEmitted[i].name = "tokens" =>
              \E j \in 1..(i - 1) : tsEmitted[j].name = "handshake"
        /\ Len(HandshakeEvents) <= 1
        /\ Len(HandshakeEvents) = 1 => IsPrefix(Handshake, Take(Input, delivered))
        /\ IsPrefix(Handshake, Take(Input, delivered)) =>
              /\ Len(HandshakeEvents) = 1
              /\ (Len(stream.items) > 1 /\ stream.items[2].kind = "int"
                    /\ delivered >= EndOf(stream, 2)) =>
                     /\ Len(TokensOf(tsEmitted)) > 0
                     /\ TokensOf(tsEmitted)[1] = IntToken(stream.items[2].text)
        /\ (~IsPrefix(Take(Input, delivered), Handshake)
              /\ ~IsPrefix(Handshake, Take(Input, delivered))) =>
              /\ Len(tsEmitted) = 1 /\ tsEmitted[1].name = "error"
              /\ tsEmitted[1].err.name \in {"ProtocolError", "ServerError"}
              /\ ~listening

(***************************************************************************)
(* The client again, under Spec                                            *)
(***************************************************************************)
\* An async message : k m with a number m the catalogue does not have is the
\* next message on the wire, with its k parameters
UnknownAsyncAhead(k) ==
    /\ AtHeader /\ Len(wire) >= 3 + k
    /\ wire[1].type = ":"
    /\ wire[2].type = "int" /\ wire[2].value = k
    /\ wire[3].type = "int" /\ wire[3].value \notin DOMAIN async

\* C19: an async message : k m with a number m that is not in the catalogue
\* is skipped without error: the dispatcher takes exactly the k tokens after
\* the header, emits nothing, completes nothing, keeps its state and is ready
\* for the next message.
C19_UnknownAsyncSkipped ==
    [][\A k \in 0..Len(wire) :
          (UnknownAsyncAhead(k) /\ DeliverTokens(3 + k)) =>
              /\ threw' = ""
              /\ state' = state
              /\ emitted' = emitted
              /\ futures' = futures
              /\ currentParser' = None
              /\ requiredTokens' = 0]_vars

\* The events of the async messages the server has sent, in the order sent
AsyncSent == SelectSeq(sent, LAMBDA m : m.type = ":")
AsyncEvents == [k \in DOMAIN AsyncSent |->
                   [name |-> async[AsyncSent[k].ref].name, arg |-> AsyncSent[k].value]]

\* The number of async messages among the first k the server has sent
AsyncBefore(k) == Cardinality({l \in 1..k : sent[l].type = ":"})

\* The events of the connection itself, emitted before any message is dispatched
ConnectEvents == IF expectHandshake THEN <<>> ELSE <<[name |-> "connect", arg |-> <<>>]>>

\* C20: the async messages of the catalogue are emitted under their catalogue
\* name with the parsed message, in the order they arrived, and in arrival
\* order relative to the replies and error replies dispatched; none is
\* emitted between the header of a reply and the completion of the reply's
\* future.
C20_AsyncEventsInArrivalOrder ==
    /\ [](Quiescent =>
            /\ emitted = ConnectEvents \o AsyncEvents
            /\ \A k \in DOMAIN sent :
                  sent[k].type \in {"=", "%"} =>
                      \E i \in DOMAIN futures :
                          /\ futures[i].refNo = sent[k].ref
                          /\ Len(Settled(i)) = 1
                          /\ Settled(i)[1].after = Len(ConnectEvents) + AsyncBefore(k))
    /\ [][\A e \in DOMAIN emitted' :
             (/\ e > Len(emitted)
              /\ emitted'[e].name \in AsyncNames
              /\ IsSome(currentRequest)) =>
                 /\ Len(futures'[The(currentRequest).id].settled) = 1
                 /\ futures'[The(currentRequest).id].settled[1].after < e]_vars

\* An async message and then a reply have been dispatched: the event is
\* emitted under the catalogue name, and the reply delivered after it
C20_Witness ==
    /\ Quiescent /\ Len(sent) = 2 /\ Len(futures) = 1
    /\ sent[1].type = ":" /\ sent[1].ref = 8
    /\ sent[2].type = "="
    /\ emitted = <<[name |-> "connect", arg |-> <<>>],
                   [name |-> "leave-conf", arg |-> [confNo |-> 5]]>>
    /\ Len(Settled(1)) = 1 /\ Settled(1)[1].kind = "resolve" /\ Settled(1)[1].after = 2

(***************************************************************************)
(* The dispatcher alone, on a token sequence cut into batches               *)
(***************************************************************************)
MaxTokens == 4
MaxBatchMsgs == 2

\* new Client(socket), as a record
Constructed ==
    [state |-> "connecting", nextRefNo |-> 0, requests |-> <<>>,
     currentRequest |-> None, currentParser |-> None, currentTarget |-> None,
     bufferedTokens |-> None, requiredTokens |-> 0, socket |-> TRUE, tokenstream |-> TRUE,
     written |-> <<>>, ended |-> 0, writable |-> TRUE, destroyed |-> FALSE,
     sockListeners |-> TRUE, tsListeners |-> TRUE,
     emitted |-> <<>>, futures |-> <<>>, threw |-> "", promise |-> Waiting]

\* The client is c
ClientIs(c) ==
    /\ state = c.state
    /\ nextRefNo = c.nextRefNo
    /\ requests = c.requests
    /\ currentRequest = c.currentRequest
    /\ currentParser = c.currentParser
    /\ currentTarget = c.currentTarget
    /\ bufferedTokens = c.bufferedTokens
    /\ requiredTokens = c.requiredTokens
    /\ socket = c.socket
    /\ tokenstream = c.tokenstream
    /\ written = c.written
    /\ ended = c.ended
    /\ writable = c.writable
    /\ destroyed = c.destroyed
    /\ sockListeners = c.sockListeners
    /\ tsListeners = c.tsListeners
    /\ emitted = c.emitted
    /\ futures = c.futures
    /\ threw = c.threw
    /\ promise = c.promise

\* The client after the socket has connected, the server has sent its
\* handshake, and getVersionInfo (refNo 0) and login (refNo 1) have been called
InFlight ==
    Method(Method(onHandshake(onConnect(Constructed)), "getVersionInfo", JObj(<<>>)),
           "login",
           JObj([person |-> JNum(7), passwd |-> JStr(Passwd), invisible |-> JBool(FALSE)]))

\* The tokens a tokenizer may emit
TokenAlphabet ==
    {SimpleToken("="), SimpleToken("%"), SimpleToken(":"),
     IntTok(0), IntTok(1), IntTok(8), StringToken(<<"l">>)}

RECURSIVE SeqsUpTo(_, _)
SeqsUpTo(S, n) ==
    IF n = 0 THEN {<<>>}
    ELSE LET shorter == SeqsUpTo(S, n - 1)
         IN  shorter \cup {Append(s, x) : s \in shorter, x \in S}

\* Messages of a server: the replies to the two requests, an error reply, a
\* second reply, a reply to a request never sent, async messages of the
\* catalogue and outside it, and a reply that does not parse
BatchMessages ==
    {<<SimpleToken("="), IntTok(0), IntTok(10), StringToken(<<"l">>), StringToken(<<"2">>)>>,
     <<SimpleToken("="), IntTok(1)>>,
     <<SimpleToken("%"), IntTok(0), IntTok(4), IntTok(10)>>,
     <<SimpleToken("%"), IntTok(1), IntTok(4), IntTok(10)>>,
     <<SimpleToken("="), IntTok(5)>>,
     <<SimpleToken(":"), IntTok(1), IntTok(8), IntTok(5)>>,
     <<SimpleToken(":"), IntTok(0), IntTok(7)>>,
     <<SimpleToken(":"), IntTok(1), IntTok(99), IntTok(5)>>,
     <<SimpleToken("="), IntTok(0), StringToken(<<"l">>)>>}

RECURSIVE MessageSeqs(_)
MessageSeqs(n) ==
    IF n = 0 THEN {<<>>}
    ELSE MessageSeqs(n - 1) \cup {s \o m : s \in MessageSeqs(n - 1), m \in BatchMessages}

TokenSeqs == SeqsUpTo(TokenAlphabet, MaxTokens) \cup MessageSeqs(MaxBatchMsgs)

envVarsButWire == <<expectHandshake, connected, peerEnded, sockClosed, sent>>

\* the open client with two requests in flight, and a token sequence to come
BatchInit ==
    /\ ClientIs(InFlight)
    /\ expectHandshake = FALSE
    /\ connected = TRUE
    /\ peerEnded = FALSE
    /\ sockClosed = FALSE
    /\ sent = <<>>
    /\ NoStream
    /\ job \in TokenSeqs
    /\ wire = job
    /\ run = <<>>

\* the tokenizer emits 'tokens' with the next k tokens; run keeps the lengths
\* of the batches
DeliverBatch(k) ==
    /\ tsListeners
    /\ k \in 1..Len(wire)
    /\ wire' = Slice(wire, k)
    /\ Becomes(onTokens(Client, Take(wire, k)))
    /\ run' = Append(run, k)
    /\ UNCHANGED <<envVarsButWire, tokVars, job>>

BatchNext == \E k \in 1..Len(wire) : DeliverBatch(k)

BatchSpec == BatchInit /\ [][BatchNext]_vars

\* What the client has done for its user: the events emitted, and the calls
\* of resolve and reject of every request
Actions(c) == <<c.emitted, c.futures>>

\* every token has been handed to _onTokens, or the client has detached from
\* the tokenizer
Dispatched == wire = <<>> \/ ~tsListeners

\* C21: however a token sequence is cut into 'tokens' batches, the client
\* resolves, rejects and emits as it does when the sequence arrives as one batch.
C21_BatchingInvariant ==
    Dispatched => Actions(Client) = Actions(onTokens(InFlight, job))

\* An async message and the reply to getVersionInfo have arrived in four
\* batches, cut inside the header of the async message, after the header of
\* the reply and inside the reply
C21_Witness ==
    /\ Dispatched
    /\ job = <<SimpleToken(":"), IntTok(1), IntTok(8), IntTok(5)>>
              \o <<SimpleToken("="), IntTok(0), IntTok(10), StringToken(<<"l">>),
                   StringToken(<<"2">>)>>
    /\ run = <<2, 4, 2, 1>>
    /\ emitted[Len(emitted)] = [name |-> "leave-conf", arg |-> [confNo |-> 5]]
    /\ Len(futures[1].settled) = 1 /\ futures[1].settled[1].kind = "resolve"

\* The tokens _onTokens starts its loop with when the next batch has k tokens
LoopTokens(k) ==
    IF requiredTokens > 0 THEN The(bufferedTokens) \o Take(wire, k) ELSE Take(wire, k)

\* The next batch of k tokens brings the header of a reply or an error reply
\* to a refNo that is no key of this._requests
UnknownReply(k) ==
    /\ k \in 1..Len(wire)
    /\ run' = Append(run, k)
    /\ IsNone(currentParser)
    /\ Len(LoopTokens(k)) >= 2
    /\ LoopTokens(k)[1].type \in {"=", "%"}
    /\ LoopTokens(k)[2].type = "int"
    /\ LoopTokens(k)[2].value \notin DOMAIN requests

UnexpectedReply(k) ==
    ProtocolError("unexpected reply refNo: " \o ToString(LoopTokens(k)[2].value))

RejectedWith(err) ==
    [kind |-> "reject", value |-> <<>>, err |-> err, state |-> "closed",
     after |-> Len(emitted) + 2]

\* C22: a reply =n or an error reply %n whose n is no key of the in-flight
\* table, a second reply to an answered refNo included, is a fatal
\* ProtocolError: 'error' is emitted, every request in flight is rejected with
\* it, and the client is closed.
C22_UnknownRefNoIsFatal ==
    [][\A k \in 1..Len(wire) :
          UnknownReply(k) =>
              /\ state' = "closed"
              /\ emitted' = emitted \o <<[name |-> "closed", arg |-> <<>>],
                                         [name |-> "error", arg |-> UnexpectedReply(k)]>>
              /\ requests' = <<>>
              /\ \A n \in DOMAIN requests :
                    futures'[requests[n].id].settled =
                        Append(futures[requests[n].id].settled, RejectedWith(UnexpectedReply(k)))
              /\ \A i \in DOMAIN futures :
                    (\A n \in DOMAIN requests : requests[n].id # i) =>
                        futures'[i] = futures[i]]_vars

\* login has been answered twice: the second reply has closed the client and
\* rejected getVersionInfo, which was in flight, and left login resolved
C22_Witness ==
    /\ job = <<SimpleToken("="), IntTok(1), SimpleToken("="), IntTok(1)>>
    /\ run = <<2, 2>>
    /\ state = "closed"
    /\ emitted[Len(emitted)].name = "error"
    /\ emitted[Len(emitted)].arg = ProtocolError("unexpected reply refNo: 1")
    /\ Len(futures[2].settled) = 1 /\ futures[2].settled[1].kind = "resolve"
    /\ Len(futures[1].settled) = 1 /\ futures[1].settled[1].kind = "reject"
    /\ futures[1].settled[1].err = ProtocolError("unexpected reply refNo: 1")

(***************************************************************************)
(* formatRequest by itself, and the request read back                       *)
(***************************************************************************)
LongStrings == 12

\* a string of n characters
Long(n) == [i \in 1..n |-> "a"]

\* Strings for a request: text, text that latin1 encodes to a byte above 127,
\* a Buffer, text with a line that starts with %%, and text that makes the
\* request end around the end of the initial buffer
Texts ==
    {JStr(<<>>), JStr(<<"p", "w">>), JStr(<<"h", Byte0xA5>>), JBuf(<<"b", "a", "r">>),
     JStr(<<"\n", "%", "%", "x">>)}
    \cup {JStr(Long(n)) : n \in (InitialBufferSize - 20)..(InitialBufferSize - 20 + LongStrings)}

AuxItem(tag, flags, limit, data) ==
    JObj([tag |-> JNum(tag), flags |-> JObj(flags), inheritLimit |-> JNum(limit),
          data |-> data])

\* The calls of formatRequest: the RPC, the refNo and the parameters
FormatJobs ==
    {[name |-> "logout", refNo |-> n, params |-> JObj(<<>>)] : n \in {0, 10}}
    \cup {[name |-> "login", refNo |-> n,
           params |-> JObj([person |-> JNum(person), passwd |-> passwd,
                            invisible |-> JBool(invisible)])] :
             n \in {0, 11}, person \in {0, 4711}, passwd \in Texts, invisible \in BOOLEAN}
    \cup {[name |-> "acceptAsync", refNo |-> 12,
           params |-> JObj([requestList |-> JArr(a)])] :
             a \in {<<>>, <<JNum(12)>>, <<JNum(12), JNum(8), JNum(4)>>}}
    \cup {[name |-> "createPerson", refNo |-> 13,
           params |-> JObj([name |-> name, passwd |-> JStr(<<"b", "a", "r">>),
                            flags |-> JObj([unreadIsSecret |-> JBool(secret)]),
                            auxItems |-> JArr(items)])] :
             name \in {JStr(<<"f", "o", "o">>), JStr(Long(2 * InitialBufferSize))},
             secret \in BOOLEAN,
             items \in {<<>>,
                        <<AuxItem(17, [inherit |-> JBool(TRUE), dontGarb |-> JBool(TRUE)],
                                  0, JStr(<<"g", "a", "z", "o", "n", "k">>)),
                          AuxItem(18, <<>>, 10, JStr(<<>>))>>,
                        <<AuxItem(17, [deleted |-> JBool(TRUE), inherit |-> JBool(FALSE)],
                                  0, JStr(Long(InitialBufferSize)))>>}}

CodecInit ==
    /\ NewClient
    /\ expectHandshake = TRUE
    /\ NoStream
    /\ job \in FormatJobs
    /\ run = <<>>

\* rpc.formatRequest(refNo, params)
FormatRequest ==
    /\ run = <<>>
    /\ run' = <<formatRequest(rpc[job.name], job.refNo, job.params)>>
    /\ UNCHANGED <<clientVars, ioVars, envVars, obsVars, tokVars, job>>

\* The bytes of the fields of the request j, formatted as msg: what follows
\* the refNo and the RPC number
FieldBytes(j, msg) == Slice(msg, Len(ToDecimal(j.refNo)) + 1 + Len(ToDecimal(rpc[j.name].number)))

\* What a TokenStream emits on the bytes as one chunk, and at the end of the stream
Tokenized(bytes) == Ended(parser(TokenStream(FALSE), bytes)).emitted

\* The events of the tokenizer, and what a MessageParser of the request
\* schema makes of the tokens
ReadBack(name, events) ==
    [events |-> events,
     parsed |-> parseTokens(MessageParser(rpc[name].request), TokensOf(events))]

\* the request is sent through a TokenStream and parsed with its own schema
ParseBack ==
    /\ Len(run) = 1
    /\ run[1].err = ""
    /\ run' = Append(run, ReadBack(job.name, Tokenized(FieldBytes(job, run[1].msg))))
    /\ UNCHANGED <<clientVars, ioVars, envVars, obsVars, tokVars, job>>

CodecNext == FormatRequest \/ ParseBack

CodecSpec == CodecInit /\ [][CodecNext]_vars

\* The bytes of a string parameter: of the Buffer, or of the text in latin1
BytesOf(v) == IF v.t = "buffer" THEN v.b ELSE Latin1Encode(v.s)

RECURSIVE Wire(_, _)
RECURSIVE WireElements(_, _)
RECURSIVE WireFields(_, _)

\* The fields of a request as the protocol writes them: every piece after one space
Wire(type, v) ==
    CASE type.k = "Empty" -> <<>>
      [] type.k = "Int" -> <<" ">> \o ToDecimal(v.n)
      [] type.k = "Bool" -> <<" ", IF v.b THEN "1" ELSE "0">>
      [] type.k = "KOMString" -> <<" ">> \o ToDecimal(Len(BytesOf(v))) \o <<"H">> \o BytesOf(v)
      [] type.k = "Bitstring" ->
           <<" ">> \o [i \in 1..Len(type.flags) |->
                          IF HasOwn(v, type.flags[i]) /\ v.o[type.flags[i]].b THEN "1" ELSE "0"]
                   \o type.reserved
      [] type.k = "KOMArray" ->
           <<" ">> \o ToDecimal(Len(v.a)) \o <<" ", "{">>
                   \o WireElements(type.type, v.a) \o <<" ", "}">>
      [] type.k = "Structure" -> WireFields(type.fields, v)

WireElements(type, a) ==
    IF Len(a) = 0 THEN <<>> ELSE Wire(type, a[1]) \o WireElements(type, Tail(a))

WireFields(fields, obj) ==
    IF Len(fields) = 0 THEN <<>>
    ELSE Wire(fields[1].type, obj.o[fields[1].name]) \o WireFields(Tail(fields), obj)

RequestText(j) ==
    ToDecimal(j.refNo) \o <<" ">> \o ToDecimal(rpc[j.name].number)
        \o Wire(rpc[j.name].request, j.params) \o <<"\n">>

\* C23: the formatted request is the decimal refNo, one space and the decimal
\* RPC number, every serialised field after exactly one space (a string as
\* <byte length>H<bytes>, an array as <n> { elements }, a bit-string as its
\* digits) and one newline; the buffer returned has exactly the bytes
\* written, also beyond the 1000 bytes of the initial buffer.
C23_RequestText ==
    Len(run) >= 1 => run[1] = [err |-> "", msg |-> RequestText(job)]

\* A login request of one byte more than the initial buffer has been formatted
C23_Witness ==
    /\ Len(run) >= 1
    /\ job.name = "login"
    /\ run[1].err = ""
    /\ Len(run[1].msg) = InitialBufferSize + 1
    /\ run[1].msg[Len(run[1].msg)] = "\n"

RECURSIVE Same(_, _, _)

\* The value a schema parser has built is the parameter v: integers equal,
\* strings byte-equal, booleans equal, arrays of equal length and elements,
\* every declared flag of a bit-string equal
Same(type, v, parsed) ==
    CASE type.k = "Empty" -> TRUE
      [] type.k = "Int" -> parsed = v.n
      [] type.k = "Bool" -> parsed = v.b
      [] type.k = "KOMString" -> parsed = BytesOf(v)
      [] type.k = "Bitstring" ->
           \A i \in 1..Len(type.flags) :
               /\ type.flags[i] \in DOMAIN parsed
               /\ parsed[type.flags[i]] = (HasOwn(v, type.flags[i]) /\ v.o[type.flags[i]].b)
      [] type.k = "KOMArray" ->
           /\ Len(parsed) = Len(v.a)
           /\ \A i \in 1..Len(v.a) : Same(type.type, v.a[i], parsed[i])
      [] type.k = "Structure" ->
           \A i \in 1..Len(type.fields) :
               /\ type.fields[i].name \in DOMAIN parsed
               /\ Same(type.fields[i].type, v.o[type.fields[i].name],
                       parsed[type.fields[i].name])

\* C24: round trip: tokenizing the formatted field bytes and parsing the
\* tokens with the schema of the request yields the original parameters.
C24_RoundTrip ==
    Len(run) = 2 =>
        /\ run[2].parsed.r = "value"
        /\ Same(rpc[job.name].request, job.params, The(getMessage(run[2].parsed.mp)))

(***************************************************************************)
(* A MessageParser by itself, given the tokens of a message in several     *)
(* calls of parseTokens                                                     *)
(***************************************************************************)
MaxLength == 2

\* The schemas parsed: a structure, a structure with a bit-string, an array
\* in a structure, and an array of structures
SchemaOf(name) ==
    CASE name = "error" -> RPCerror
      [] name = "getUconfStat" -> rpc["getUconfStat"].response
      [] name = "acceptAsync" -> rpc["acceptAsync"].request
      [] name = "lookupZName" -> rpc["lookupZName"].response

\* The tokens of element i of the array of a schema
Element(name, i) ==
    IF name = "lookupZName"
    THEN <<StringToken(<<"f">>), IntToken(<<"1", "0", "0", "1">>), IntTok(4710 + i)>>
    ELSE <<IntTok(i)>>

RECURSIVE Elements(_, _)
Elements(name, m) == IF m = 0 THEN <<>> ELSE Elements(name, m - 1) \o Element(name, m)

\* A message, followed by the first token of the next one: size is the number
\* of tokens of the message, fault the place of the first token the schema
\* does not allow (0 when there is none)
ParseJob(name, tokens, size, fault) ==
    [schema |-> name, tokens |-> tokens \o <<IntTok(10)>>, size |-> size, fault |-> fault]

\* An array that declares n elements and holds the first t tokens of n + 1
\* elements: well formed when t is the number of tokens of n elements, truncated
\* when it is less, too long when it is more
ArrayJob(name, n, t) ==
    ParseJob(name,
             <<IntTok(n), SimpleToken("{")>> \o Take(Elements(name, n + 1), t)
                 \o <<SimpleToken("}")>>,
             IF t = Len(Elements(name, n)) THEN t + 3 ELSE 0,
             IF t = Len(Elements(name, n)) THEN 0
             ELSE 3 + Min(t, Len(Elements(name, n))))

ParseJobs ==
    UNION {{ArrayJob(name, n, t) : t \in 0..Len(Elements(name, n + 1))} :
               name \in {"acceptAsync", "lookupZName"}, n \in 0..MaxLength}
    \cup {ParseJob("error", <<IntTok(4), IntTok(4711)>>, 2, 0),
          ParseJob("getUconfStat",
                   <<StringToken(<<"f", "o", "o">>),
                     IntToken(<<"0", "1", "0", "0", "1", "1", "0", "0">>),
                     IntTok(12000), IntTok(30)>>, 4, 0),
          ParseJob("lookupZName", <<IntTok(0), SimpleToken("*")>>, 2, 0)}

\* new MessageParser(struct) for one of the messages; run keeps the parser
\* and the calls made of parseTokens
ParseInit ==
    /\ NewClient
    /\ expectHandshake = TRUE
    /\ NoStream
    /\ job \in ParseJobs
    /\ run = [mp |-> MessageParser(SchemaOf(job.schema)), calls |-> <<>>]

RECURSIVE Given(_, _)
\* The number of tokens the first i calls were given
Given(calls, i) == IF i = 0 THEN 0 ELSE Given(calls, i - 1) + calls[i].k

\* no call of parseTokens has been made, or the last one returned null
Returned == IF Len(run.calls) = 0 THEN TRUE ELSE run.calls[Len(run.calls)].r = "null"

\* What a call of parseTokens with k tokens has done, and getMessage() after it
Called(k, res) ==
    [mp |-> res.mp,
     calls |-> Append(run.calls, [k |-> k, r |-> res.r, remaining |-> res.remaining,
                                  err |-> res.err, msg |-> getMessage(res.mp)])]

\* parser.parseTokens(tokens) with the next k tokens, then parser.getMessage()
ParseTokens(k) ==
    /\ Returned
    /\ k \in 1..(Len(job.tokens) - Given(run.calls, Len(run.calls)))
    /\ run' = Called(k, parseTokens(run.mp,
                                    SubSeq(job.tokens, Given(run.calls, Len(run.calls)) + 1,
                                           Given(run.calls, Len(run.calls)) + k)))
    /\ UNCHANGED <<clientVars, ioVars, envVars, obsVars, tokVars, job>>

ParseNext == \E k \in 1..Len(job.tokens) : ParseTokens(k)

ParseSpec == ParseInit /\ [][ParseNext]_vars

\* C25: an array n { ... } is accepted only when exactly n complete elements
\* stand between the braces: when the closing brace comes before n elements
\* are complete, or an element token where the closing brace is due, the
\* parser raises ProtocolError and yields no value.
C25_ArrayLength ==
    job.fault > 0 =>
        \A i \in DOMAIN run.calls :
            /\ run.calls[i].msg = None
            /\ IF Given(run.calls, i) < job.fault
               THEN run.calls[i].r = "null"
               ELSE run.calls[i].r = "throw" /\ run.calls[i].err.name = "ProtocolError"

\* The array of lookupZName that declares two elements and holds one (the
\* test 'should fail on truncated array') has been given in two calls
C25_Witness ==
    /\ job.schema = "lookupZName"
    /\ job.tokens[1].value = 2 /\ job.fault = 6
    /\ Len(run.calls) = 2 /\ run.calls[1].k = 3
    /\ run.calls[2].r = "throw"
    /\ run.calls[2].err = ProtocolError("expected string, got }")

\* The message a MessageParser builds from the tokens of a job in one call
WholeMessage(j) == getMessage(parseTokens(MessageParser(SchemaOf(j.schema)), j.tokens).mp)

\* C29: a MessageParser can be resumed at every token boundary: however the
\* tokens of a message are cut into calls of parseTokens, every call before
\* the last returns null and leaves getMessage() null, the last returns exactly
\* the tokens that follow the message, and the value is the one of a single call.
C29_Resumable ==
    job.fault = 0 =>
        \A i \in DOMAIN run.calls :
            IF Given(run.calls, i) < job.size
            THEN run.calls[i].r = "null" /\ run.calls[i].msg = None
            ELSE /\ i = Len(run.calls)
                 /\ run.calls[i].r = "value"
                 /\ run.calls[i].remaining = SubSeq(job.tokens, job.size + 1, Given(run.calls, i))
                 /\ IsSome(run.calls[i].msg)
                 /\ run.calls[i].msg = WholeMessage(job)

\* The array of two structures of lookupZName has been given in calls of 1, 2
\* and 7 tokens, as in the test 'should parse lookupZName response'
C29_Witness ==
    /\ job.schema = "lookupZName" /\ job.size = 9
    /\ Len(run.calls) = 3
    /\ run.calls[1].k = 1 /\ run.calls[2].k = 2 /\ run.calls[3].k = 7
    /\ run.calls[3].remaining = <<IntTok(10)>>
    /\ Len(The(run.calls[3].msg)) = 2
    /\ The(run.calls[3].msg)[2].confNo = 4712

\* What the current MessageParser makes of the next k tokens
Feeding(k) == parseTokens(The(currentParser), Take(wire, k))

\* The first thing the client does after the current message is complete: the
\* future of the current request is completed, or the async event emitted
TargetCalled ==
    IF IsSome(currentRequest)
    THEN /\ Len(futures'[The(currentRequest).id].settled)
                > Len(futures[The(currentRequest).id].settled)
         /\ futures'[The(currentRequest).id].settled
                [Len(futures[The(currentRequest).id].settled) + 1].after = Len(emitted)
    ELSE /\ Len(emitted') > Len(emitted)
         /\ emitted'[Len(emitted) + 1].name = The(currentTarget).name

\* the batch of k tokens has gone to the current MessageParser
FedToParser(k) ==
    CASE Feeding(k).r = "null" ->
           /\ currentParser' = Some(Feeding(k).mp)
           /\ UNCHANGED <<state, requests, currentRequest, currentTarget, requiredTokens,
                          emitted, futures>>
      [] Feeding(k).r = "throw" ->
           /\ state' = "closed"
           /\ emitted' = emitted \o <<[name |-> "closed", arg |-> <<>>],
                                      [name |-> "error", arg |-> Feeding(k).err]>>
      [] Feeding(k).r = "value" -> TargetCalled

\* C28: at most one message parser is active at any time; while one is active
\* every arriving token is fed to it, and a new message header is only read
\* when no parser is active.
C28_OneActiveParser ==
    /\ [](IsSome(currentParser) => requiredTokens = 0)
    /\ [](IsSome(currentRequest) => IsSome(currentParser))
    /\ [][\A k \in 1..Len(wire) :
             (run' = Append(run, k) /\ IsSome(currentParser)) =>
                 IF The(currentParser).kind = "MessageParser"
                 THEN FedToParser(k)
                 ELSE threw' = "TypeError" /\ UNCHANGED <<clientVars, emitted, futures>>]_vars

\* The header of the reply to getVersionInfo came in one batch and two tokens
\* of the reply in the next: the parser of the reply holds the first two
\* fields, and the reply to login is still to come
C28_Witness ==
    /\ job = <<SimpleToken("="), IntTok(0), IntTok(10), StringToken(<<"l">>),
               StringToken(<<"2">>), SimpleToken("="), IntTok(1)>>
    /\ run = <<2, 2>>
    /\ IsSome(currentParser)
    /\ The(currentParser).parser.i = 2
    /\ requests = (1 :> [name |-> "login", id |-> 2])
    /\ futures[1].settled = <<>>

(***************************************************************************)
(* The end of the stream, under TokSpec                                     *)
(***************************************************************************)
\* the 'end' handler of the TokenStream runs
EndStep == ~streamEnded /\ streamEnded' /\ listening

EndEvent == Event("end", NoError, <<>>)

\* What the stream ends with, when the tokenizer holds exactly that at the end
TailKind ==
    IF Len(stream.items) > 0 /\ stream.items[Len(stream.items)] \in Tails
          /\ buffer = stream.items[Len(stream.items)].bytes
    THEN stream.items[Len(stream.items)].kind
    ELSE "none"

TailText == stream.items[Len(stream.items)].text

\* 'end' has been emitted once, as the last event
EndsOnce ==
    /\ Len(tsEmitted') > 0
    /\ tsEmitted'[Len(tsEmitted')] = EndEvent
    /\ \A i \in 1..(Len(tsEmitted') - 1) : tsEmitted'[i].name # "end"

\* C30: at the end of the stream the tokenizer runs the buffered bytes again
\* with one whitespace byte appended, so that a final integer or float without
\* its terminator is emitted as a token; when bytes still remain (an incomplete
\* Hollerith string, digits followed by a byte that is no token) it emits a
\* ProtocolError; then it emits 'end', exactly once and after the last token.
C30_EndOfStream ==
    [][EndStep =>
          /\ EndsOnce
          /\ CASE TailKind = "unterminated int" ->
                    tsEmitted' = tsEmitted \o <<Event("tokens", NoError, <<IntToken(TailText)>>),
                                                EndEvent>>
               [] TailKind = "unterminated float" ->
                    tsEmitted' = tsEmitted \o <<Event("tokens", NoError,
                                                      <<FloatToken(<<"1">>, Fraction(TailText))>>),
                                                EndEvent>>
               [] TailKind = "incomplete" ->
                    /\ Len(tsEmitted') = Len(tsEmitted) + 2
                    /\ tsEmitted'[Len(tsEmitted) + 1].name = "error"
                    /\ tsEmitted'[Len(tsEmitted) + 1].err.name = "ProtocolError"
               [] OTHER ->
                    buffer = <<>> => tsEmitted' = tsEmitted \o <<EndEvent>>]_vars

(***************************************************************************)
(* connectAndWait, under Spec                                               *)
(***************************************************************************)
IsSignal(e) == e.name \in {"connect", "error"}

\* The first of 'connect' and 'error' the client has emitted, "" when neither
FirstSignal ==
    IF SelectSeq(emitted, IsSignal) = <<>> THEN "" ELSE SelectSeq(emitted, IsSignal)[1].name

\* The state of the Promise: the first call of resolve or reject settles it
Fate == IF promise.calls = <<>> THEN "pending" ELSE promise.calls[1]

\* C26: the future of connectAndWait is resolved with the client exactly when
\* the client emits 'connect' before any 'error', it is rejected when an 'error'
\* is emitted first, and it is never both resolved and rejected.
C26_ConnectAndWait ==
    /\ Fate = "resolve" <=> FirstSignal = "connect"
    /\ Fate = "reject" <=> FirstSignal = "error"
    /\ ~(\E i, j \in DOMAIN promise.calls :
             promise.calls[i] = "resolve" /\ promise.calls[j] = "reject")

\* The client has emitted 'connect' and later 'error': the future is resolved,
\* and reject has not been called
C26_Witness ==
    /\ Len(SelectSeq(emitted, IsSignal)) = 2
    /\ SelectSeq(emitted, IsSignal)[1].name = "connect"
    /\ SelectSeq(emitted, IsSignal)[2].name = "error"
    /\ promise.calls = <<"resolve">>

(***************************************************************************)
(* The end of a connection, under a socket that keeps its promises           *)
(***************************************************************************)
\* What net.Socket and the server do in the end: a connection attempt succeeds
\* (or fails, by SocketError); the server ends its side of a connection the
\* client has ended with socket.end(); a socket that was destroyed, or whose
\* peer has ended, emits 'close'.
\* The events of Spec, with one call made and one message sent at most
LiveCalls == 1
LiveMsgs == 1

LiveNext ==
    \/ SocketConnect
    \/ ServerHandshake
    \/ \E name \in CallNames : \E params \in Params(name) :
           Len(futures) < LiveCalls /\ Call(name, params)
    \/ Close
    \/ \E m \in ServerMessages : Len(sent) < LiveMsgs /\ ServerSend(m)
    \/ \E k \in 1..Len(wire) : DeliverTokens(k)
    \/ PeerEnd
    \/ SocketClose
    \/ SocketError
    \/ TokenstreamError(ProtocolError("unexpected data from server: x"))

LiveSpec ==
    /\ Init /\ [][LiveNext]_vars
    /\ WF_vars(SocketConnect)
    /\ WF_vars(ended > 0 /\ PeerEnd)
    /\ WF_vars(SocketClose)

IsClose(e) == e.name = "close"
CloseEvents == SelectSeq(emitted, IsClose)

IsUnexpectedData(e) ==
    /\ e.name = "error" /\ e.err.name = "ProtocolError"
    /\ Take(e.err.message, 1) = <<"unexpected data from server: ">>

\* C31: after the tokenizer has emitted the ProtocolError for bytes that are
\* no token, it emits no 'tokens' event: not for the bytes after them, and
\* not for the tokens of the same chunk that came before them.
C31_NoTokensAfterProtocolError ==
    \A i, j \in DOMAIN tsEmitted :
        i < j /\ IsUnexpectedData(tsEmitted[i]) => tsEmitted[j].name # "tokens"

(***************************************************************************)
(* %% frames in normal mode, under TokSpec                                  *)
(***************************************************************************)
IsFrameItem(item) == item.kind = "frame"
IsNoFrameItem(item) == item.kind # "frame"
IsServerErrorEvent(e) == e.name = "error" /\ e.err.name = "ServerError"
IsOtherErrorEvent(e) == e.name = "error" /\ e.err.name # "ServerError"

\* the stream arrives whole, as its first chunk, at a tokenizer in normal mode
WholeStreamArrives ==
    /\ ~stream.eh /\ WellFormed(stream)
    /\ delivered = 0 /\ delivered' = Len(Input)

\* the ServerErrors of the frames of the stream, in order
FrameErrors(items) ==
    [i \in DOMAIN SelectSeq(items, IsFrameItem) |->
        Event("error", ServerError(SelectSeq(items, IsFrameItem)[i].text), <<>>)]

\* what the stream without its frames is tokenized to
Frameless(items) == parser(TokenStream(FALSE), Concat(SelectSeq(items, IsNoFrameItem)))

\* C32: in normal mode each %% frame of a chunk gives one ServerError with
\* the text up to the newline and nothing else: the tokens emitted are those
\* of the chunk without the frames, no other error is emitted, and nothing of
\* a frame stays in the buffer, wherever in the chunk the frames are.
C32_FrameIsCutOut ==
    [][WholeStreamArrives =>
          /\ SelectSeq(tsEmitted', IsServerErrorEvent) = FrameErrors(stream.items)
          /\ SelectSeq(tsEmitted', IsOtherErrorEvent) = <<>>
          /\ TokensOf(tsEmitted') = TokensOf(Frameless(stream.items).emitted)
          /\ buffer' = Frameless(stream.items).buffer]_vars

(***************************************************************************)
(* Messages with the schema Empty, under Spec                               *)
(***************************************************************************)
\* the tokens the dispatcher has of the message it is at when the next k arrive
Seen(k) == (IF requiredTokens > 0 THEN The(bufferedTokens) ELSE <<>>) \o Take(wire, k)

\* h is the header = n of a reply to the request n in flight, whose response
\* schema is Empty
EmptyReplyHeader(h, n) ==
    /\ Len(h) = 2 /\ h[1].type = "=" /\ h[2].type = "int" /\ h[2].value = n
    /\ n \in DOMAIN requests /\ rpc[requests[n].name].response = Empty

\* h is the header : k m of the async message m of the catalogue, whose schema
\* is Empty
EmptyAsyncHeader(h, m) ==
    /\ Len(h) = 3 /\ h[1].type = ":" /\ h[2].type = "int" /\ h[3].type = "int"
    /\ h[3].value = m /\ m \in DOMAIN async /\ async[m].msg = Empty

EmptyHeader(h) ==
    \/ \E n \in DOMAIN requests : EmptyReplyHeader(h, n)
    \/ \E m \in DOMAIN async : EmptyAsyncHeader(h, m)

\* C33: the batch of tokens that completes the header of a reply whose
\* response schema is Empty resolves the request with the empty message, and
\* the one that completes the header of an async message whose schema is
\* Empty emits its event with the empty message, with no token after the
\* header; and tokens that arrive in the batch of such a header are
\* dispatched as they are when they arrive in a batch of their own.
C33_EmptyIsDispatchedAtHeader ==
    [][\A k \in 1..Len(wire) :
          (IsNone(currentParser) /\ DeliverTokens(k)) =>
              /\ \A n \in DOMAIN requests :
                    EmptyReplyHeader(Seen(k), n) =>
                        /\ OutcomesOf(futures'[requests[n].id]) = <<Resolved(<<>>)>>
                        /\ n \notin DOMAIN requests'
                        /\ currentParser' = None /\ requiredTokens' = 0
                        /\ bufferedTokens' = None
              /\ \A m \in DOMAIN async :
                    EmptyAsyncHeader(Seen(k), m) =>
                        /\ emitted' = Append(emitted, [name |-> async[m].name, arg |-> <<>>])
                        /\ currentParser' = None /\ requiredTokens' = 0
                        /\ bufferedTokens' = None
              /\ \A j \in 1..(k - 1) :
                    (requiredTokens = 0 /\ EmptyHeader(Take(wire, j))) =>
                        Becomes(onTokens(onTokens(Client, Take(wire, j)),
                                         SubSeq(wire, j + 1, k)))]_vars

\* The reply to login and the async message sync-db have been sent and have
\* arrived: the request is resolved and the event emitted, both with the
\* empty message, and no token is left
C33_Witness ==
    /\ Quiescent /\ Len(futures) = 1 /\ futures[1].name = "login"
    /\ Len(sent) = 2 /\ sent[1].type = "=" /\ sent[2].type = ":" /\ sent[2].ref = 7
    /\ Outcomes(1) = <<Resolved(<<>>)>>
    /\ emitted = <<[name |-> "connect", arg |-> <<>>], [name |-> "sync-db", arg |-> <<>>]>>

(***************************************************************************)
(* The end of the token stream, under Spec                                  *)
(***************************************************************************)
\* The dispatcher is in the middle of a message: a parser is active, or a
\* header is buffered and waits for more tokens
InMessage == IsSome(currentParser) \/ requiredTokens > 0

\* C34: when the token stream ends while the dispatcher is in the middle of a
\* message, the client emits 'error' with the ProtocolError 'unexpected end
\* of data', rejects the request being parsed and every request in flight
\* with it and is closed; when the stream ends between two messages, nothing
\* is emitted and no request is completed.
C34_EndInMessageIsFatal ==
    [][PeerEnd =>
          IF InMessage
          THEN /\ ProtocolTeardown
               /\ emitted'[Len(emitted')].arg = ProtocolError("unexpected end of data")
               /\ currentRequest' = None
          ELSE UNCHANGED <<state, emitted, futures, requests>>]_vars

\* The stream has ended after the header of the reply to one of two requests
\* and before its body: both requests are rejected with the error
C34_Witness ==
    /\ peerEnded /\ state = "closed" /\ IsSome(currentParser) /\ Len(futures) = 2
    /\ emitted[Len(emitted)] = [name |-> "error", arg |-> ProtocolError("unexpected end of data")]
    /\ \A i \in DOMAIN futures :
          Outcomes(i) = <<Rejected(ProtocolError("unexpected end of data"))>>

(***************************************************************************)
(* A Bitstring by itself: format of an object, and the parser on the token  *)
(* the tokenizer makes of digits                                            *)
(***************************************************************************)
MaxDigits == 8

\* The bit-strings of the catalogue, with their declared length
BitTypes ==
    {[type |-> ConfType, length |-> 4], [type |-> ExtendedConfType, length |-> 8],
     [type |-> AuxItemFlags, length |-> 8], [type |-> PersonalFlags, length |-> 8]}

FlagNames(type) == {type.flags[i] : i \in 1..Len(type.flags)}

\* What is given to format: objects with some flags true, objects whose first
\* flag is a value of another type, an array, null and a number
FlagValues ==
    {JBool(FALSE), JNum(0), JNum(1), JStr(<<>>), JStr(<<"x">>), JNull, JUndefined}

FlagObjects(type) ==
    {JObj([f \in S |-> JBool(TRUE)]) : S \in SUBSET FlagNames(type)}
    \cup {JObj([f \in {type.flags[1], type.flags[Len(type.flags)]} |->
                    IF f = type.flags[1] THEN v ELSE JBool(TRUE)]) : v \in FlagValues}
    \cup {JArr(<<>>), JNull, JNum(5)}

\* The digits a server sends: every string of 0 and 1 up to MaxDigits, and
\* some with other digits
RawDigits ==
    UNION {[1..n -> {"0", "1"}] : n \in 1..MaxDigits}
    \cup {<<"2", "1">>, <<"1", "9", "1", "0">>, <<"0", "0", "7">>}

BitJobs ==
    UNION {{[kind |-> "format", type |-> t.type, length |-> t.length, obj |-> o,
             raw |-> <<>>] : o \in FlagObjects(t.type)}
           \cup {[kind |-> "parse", type |-> t.type, length |-> t.length, obj |-> JNull,
                  raw |-> r] : r \in RawDigits}
           : t \in BitTypes}

BitInit ==
    /\ NewClient
    /\ expectHandshake = TRUE
    /\ NoStream
    /\ job \in BitJobs
    /\ run = <<>>

\* type.format(formatter, obj) on a new formatter
FormatFlags ==
    /\ job.kind = "format" /\ run = <<>>
    /\ run' = <<Formatted(FormatBitstring(job.type, NewFormatter, job.obj))>>
    /\ UNCHANGED <<clientVars, ioVars, envVars, obsVars, tokVars, job>>

\* the server sends the digits
SendFlags ==
    /\ job.kind = "parse" /\ run = <<>>
    /\ run' = <<[err |-> "", msg |-> job.raw \o <<" ">>]>>
    /\ UNCHANGED <<clientVars, ioVars, envVars, obsVars, tokVars, job>>

\* What a TokenStream makes of the bytes, and the parser of the type of the tokens
ReadFlags(type, events) ==
    [events |-> events, parsed |-> parseTokens(MessageParser(type), TokensOf(events))]

\* the bytes go through a TokenStream, and the tokens to the parser
ParseFlags ==
    /\ Len(run) = 1 /\ run[1].err = ""
    /\ run' = Append(run, ReadFlags(job.type, Tokenized(run[1].msg \o <<"\n">>)))
    /\ UNCHANGED <<clientVars, ioVars, envVars, obsVars, tokVars, job>>

BitNext == FormatFlags \/ SendFlags \/ ParseFlags

BitSpec == BitInit /\ [][BitNext]_vars

\* digit i of the raw digits is 1
Bit(raw, i) == i <= Len(raw) /\ raw[i] = "1"

\* the digits of the flags of obj, at the declared length
FlagDigits(j) ==
    [i \in 1..j.length |->
        IF i <= Len(j.type.flags) /\ Truthy(Get(j.obj, j.type.flags[i])) THEN "1" ELSE "0"]

\* the raw digits sent: the ones formatted, or the ones of the server
RawOf(j) == IF j.kind = "format" THEN FlagDigits(j) ELSE j.raw

\* C35: a bit-string of the flags f1..fk and the length w is formatted as one
\* field of exactly w digits, digit i being 1 when flag fi of the object is
\* truthy and 0 otherwise, the digits after k being 0; and it is parsed from
\* one integer token by its raw digits, leading zeros included: flag fi is
\* true exactly when digit i is 1.
C35_Bitstring ==
    /\ (job.kind = "format" /\ Len(run) >= 1 /\ run[1].err = "") =>
           run[1].msg = <<" ">> \o FlagDigits(job)
    /\ Len(run) = 2 =>
           /\ TokensOf(run[2].events) = <<IntToken(RawOf(job))>>
           /\ run[2].parsed.r = "value"
           /\ run[2].parsed.remaining = <<>>
           /\ DOMAIN The(getMessage(run[2].parsed.mp)) = FlagNames(job.type)
           /\ \A i \in 1..Len(job.type.flags) :
                  The(getMessage(run[2].parsed.mp))[job.type.flags[i]] = Bit(RawOf(job), i)

\* An object with the second and the fifth flag of AuxItemFlags has been
\* formatted as 01001000, and parsed back with those two flags true
C35_Witness ==
    /\ job.kind = "format" /\ job.type = AuxItemFlags
    /\ job.obj = JObj([inherit |-> JBool(TRUE), dontGarb |-> JBool(TRUE)])
    /\ Len(run) = 2
    /\ run[1].msg = <<" ", "0", "1", "0", "0", "1", "0", "0", "0">>
    /\ The(getMessage(run[2].parsed.mp)) =
           [deleted |-> FALSE, inherit |-> TRUE, secret |-> FALSE, hideCreator |-> FALSE,
            dontGarb |-> TRUE]

(***************************************************************************)
(* Bytes that start no token, under TokSpec                                 *)
(***************************************************************************)
\* the place in d after the white space and the digits at its head
AfterDigits(d) == Lead(d) + DigitsAt(d) + 1

\* d cannot be extended to a token: after the white space comes a byte that
\* starts none, or digits and a byte that is none of digit . H white space,
\* or digits and . and a byte that is no digit, or a float and a byte that is
\* neither digit nor white space
CannotBeToken(d) ==
    \/ /\ DigitsAt(d) = 0
       /\ Lead(d) + 1 \in DOMAIN d /\ d[Lead(d) + 1] \notin SimpleChars
    \/ /\ DigitsAt(d) >= 1
       /\ AfterDigits(d) \in DOMAIN d
       /\ d[AfterDigits(d)] \notin WhiteSpace \cup {".", "H"}
    \/ /\ DigitsAt(d) >= 1 /\ At(d, AfterDigits(d), {"."})
       /\ AfterDigits(d) + FracAt(d) + 1 \in DOMAIN d
       /\ FracAt(d) = 0 \/ d[AfterDigits(d) + FracAt(d) + 1] \notin WhiteSpace

\* C36: the tokenizer does not keep bytes that cannot become a token: when
\* the bytes at the head of the buffer, after white space, can be extended
\* to no token, the chunk that brought them has given a ProtocolError and
\* the buffer is dropped, so a tokenizer that listens never holds such bytes.
C36_UnparseableIsReportedAtOnce ==
    (listening /\ ~expectHandshake /\ ~IsFrame(Ascii(buffer))) => ~CannotBeToken(Ascii(buffer))

(***************************************************************************)
(* Futures are completed once, under Spec                                   *)
(***************************************************************************)
\* C37: the future (or callback) of a request is completed at most once in
\* the life of the client: a future that has been resolved or rejected, by a
\* reply, an error reply or a fatal error, is never completed again by
\* anything that happens afterwards.
C37_CompletedAtMostOnce ==
    /\ [](\A i \in DOMAIN futures : Len(Settled(i)) <= 1)
    /\ [][\A i \in DOMAIN futures : Len(Settled(i)) = 1 => futures'[i] = futures[i]]_vars

\* The first of two requests was rejected by an error reply; a reply to the
\* same refNo arrived after it and was fatal: the second request is rejected
\* with the ProtocolError and the first keeps its RequestError
C37_Witness ==
    /\ Len(futures) = 2 /\ Len(sent) = 2 /\ state = "closed"
    /\ sent[1].type = "%" /\ sent[1].ref = 0 /\ sent[2].type = "=" /\ sent[2].ref = 0
    /\ Len(Settled(1)) = 1 /\ Settled(1)[1].kind = "reject"
    /\ Settled(1)[1].err.name = "RequestError"
    /\ Outcomes(2) = <<Rejected(ProtocolError("unexpected reply refNo: 0"))>>

(***************************************************************************)
(* The client on its TokenStream: the bytes of the server go through the    *)
(* tokenizer, and what the tokenizer emits goes to the listeners the        *)
(* client has on it                                                         *)
(***************************************************************************)
Unhandled == "Unhandled 'error' event"

\* EventEmitter.prototype.emit on the TokenStream, with the listeners of the
\* client (lib/client.js 45-48): 'error' with no listener is thrown by emit
listenersCalled(c, e) ==
    CASE e.name = "error" ->
           IF c.tsListeners THEN onError(c, e.err) ELSE [c EXCEPT !.threw = Unhandled]
      [] e.name = "handshake" -> IF c.tsListeners THEN onHandshake(c) ELSE c
      [] e.name = "tokens" -> IF c.tsListeners THEN onTokens(c, e.tokens) ELSE c
      [] e.name = "end" -> IF c.tsListeners THEN onEndOfTokens(c) ELSE c

\* the events of one call of the tokenizer, emitted one after the other until
\* a listener, or emit, throws: the client, and the number of events emitted
RECURSIVE Emitting(_, _, _)
Emitting(c, evs, n) ==
    IF n = Len(evs) \/ c.threw # "" THEN [c |-> c, n |-> n]
    ELSE Emitting(listenersCalled(c, evs[n + 1]), evs, n + 1)

\* what the call that left the tokenizer as t has emitted
NewEvents(t) == SubSeq(t.emitted, Len(tsEmitted) + 1, Len(t.emitted))

\* the tokenizer and the client after the call: an exception ends the call
\* at the emit that threw
Wired(t, c) ==
    /\ TokenizerBecomes([t EXCEPT !.emitted =
                            Take(@, Len(tsEmitted) + Emitting(c, NewEvents(t), 0).n)])
    /\ Becomes(Emitting(c, NewEvents(t), 0).c)

\* new Client(socket), the socket sending one of the streams that start
\* where a handshake is expected
WiredInit ==
    /\ NewClient
    /\ stream \in {s \in Streams : s.eh}
    /\ delivered = 0
    /\ streamEnded = FALSE
    /\ buffer = TokenStream(TRUE).buffer
    /\ expectHandshake = TokenStream(TRUE).expectHandshake
    /\ listening = TokenStream(TRUE).listening
    /\ tsEmitted = TokenStream(TRUE).emitted
    /\ NoJob

\* the socket emits 'data' with the next k bytes
WiredData(k) ==
    /\ Flowing /\ listening /\ threw = ""
    /\ k \in 1..(Len(Input) - delivered)
    /\ delivered' = delivered + k
    /\ Wired(parser(Tokenizer, SubSeq(Input, delivered + 1, delivered + k)), Client)
    /\ UNCHANGED <<connected, peerEnded, sockClosed, wire, sent, stream, streamEnded>>
    /\ UNCHANGED jobVars

\* the socket emits 'end', after the last byte
WiredEnd ==
    /\ Flowing /\ threw = ""
    /\ delivered = Len(Input)
    /\ streamEnded' = TRUE
    /\ peerEnded' = TRUE
    /\ IF listening
       THEN Wired(onStreamEnd(Tokenizer), [Client EXCEPT !.writable = FALSE])
       ELSE /\ Becomes([Client EXCEPT !.writable = FALSE])
            /\ UNCHANGED <<buffer, expectHandshake, listening, tsEmitted>>
    /\ UNCHANGED <<connected, sockClosed, wire, sent, stream, delivered>>
    /\ UNCHANGED jobVars

WiredNext ==
    \/ SocketConnect
    \/ \E k \in 1..Len(Input) : WiredData(k)
    \/ WiredEnd
    \/ Close
    \/ SocketError
    \/ SocketClose

WiredSpec == WiredInit /\ [][WiredNext]_vars

ClosedEvents == SelectSeq(emitted, LAMBDA e : e.name = "closed")

\* C38: no error signal of the socket or of the tokenizer, after an earlier
\* fatal error, after close() or after the socket has closed, makes a handler
\* of the client throw or is thrown for want of a handler, and the client
\* tears the connection down (emitting 'closed') at most once.
C38_ErrorHandlingIsSafe ==
    /\ threw = ""
    /\ Len(ClosedEvents) <= 1

(***************************************************************************)
(* The state of the dispatcher between two batches of tokens                *)
(***************************************************************************)
HeaderTypes == {"=", "%", ":"}

\* a header waits for tokens: no parser, and fewer tokens than it needs kept,
\* the first of them the one that chose the header
HeaderWaits ==
    /\ IsNone(currentParser)
    /\ IsSome(bufferedTokens)
    /\ Len(The(bufferedTokens)) > 0
    /\ The(bufferedTokens)[1].type \in HeaderTypes
    /\ Len(The(bufferedTokens)) < requiredTokens

\* C39: in every state of the dispatcher the number of required header
\* tokens is 0, 2 or 3; while it is greater than 0 no parser is active and the
\* buffered tokens are non-empty, start with =, % or : and are fewer than
\* required; and whenever it is 0 no tokens are buffered.
C39_NothingBufferedAtZero ==
    /\ requiredTokens \in {0, 2, 3}
    /\ requiredTokens > 0 => HeaderWaits
    /\ requiredTokens = 0 => IsNone(bufferedTokens)

====
